---- MODULE Spec2Model ----
(***************************************************************************)
(* md2cb: Markdown -> HTML conversion (parser::convert) and the process-   *)
(* wide caches it uses.  Text is modelled as TLA+ strings, character by    *)
(* character; the regular expressions of parser.rs are modelled by         *)
(* scanners that accept exactly the same matches.                          *)
(***************************************************************************)
EXTENDS Integers, Sequences, FiniteSets, TLC

(***************************************************************************)
(* String helpers (Rust str / regex primitives).                           *)
(***************************************************************************)

\* s[i] as a one-character string
At(s, i) == SubSeq(s, i, i)

\* s[i..] (1-based), "" when i is past the end
From(s, i) == SubSeq(s, i, Len(s))

\* does pattern p occur in s at position i
StartsWithAt(s, i, p) ==
    /\ i >= 1
    /\ i + Len(p) - 1 <= Len(s)
    /\ SubSeq(s, i, i + Len(p) - 1) = p

StartsWith(s, p) == StartsWithAt(s, 1, p)

EndsWith(s, p) == Len(p) <= Len(s) /\ StartsWithAt(s, Len(s) - Len(p) + 1, p)

\* least j >= i with p at j, or 0 (str::find on the tail)
Find(s, p, i) ==
    LET hits == {j \in i..(Len(s) - Len(p) + 1) : StartsWithAt(s, j, p)}
    IN  IF hits = {} THEN 0 ELSE CHOOSE j \in hits : \A k \in hits : j <= k

Contains(s, p) == Find(s, p, 1) # 0

\* least j >= i with s[j] not in set S; Len(s)+1 if none
SkipWhile(s, i, S) ==
    LET stops == {j \in i..Len(s) : At(s, j) \notin S}
    IN  IF stops = {} THEN Len(s) + 1
        ELSE CHOOSE j \in stops : \A k \in stops : j <= k

\* str::replace(from, to): every non-overlapping occurrence, left to right
RECURSIVE ReplaceFrom(_, _, _, _)
ReplaceFrom(s, from, to, i) ==
    LET j == Find(s, from, i)
    IN  IF j = 0 THEN From(s, i)
        ELSE SubSeq(s, i, j - 1) \o to \o ReplaceFrom(s, from, to, j + Len(from))

Replace(s, from, to) == ReplaceFrom(s, from, to, 1)

\* number of non-overlapping occurrences of p in s
RECURSIVE CountFrom(_, _, _)
CountFrom(s, p, i) ==
    LET j == Find(s, p, i)
    IN  IF j = 0 THEN 0 ELSE 1 + CountFrom(s, p, j + Len(p))

Count(s, p) == CountFrom(s, p, 1)

\* Regex::replace_all(s, closure): ms are the matches, left to right, each
\* [from, to, cap]; the text between matches is copied, every match is
\* replaced by F of its capture group
Splice(s, ms, F(_)) ==
    LET R[k \in 0..Len(ms)] ==
            IF k = 0 THEN ""
            ELSE R[k - 1]
                 \o SubSeq(s, (IF k = 1 THEN 1 ELSE ms[k - 1].to + 1), ms[k].from - 1)
                 \o F(ms[k].cap)
    IN  R[Len(ms)] \o From(s, IF ms = <<>> THEN 1 ELSE ms[Len(ms)].to + 1)

\* the regex class \s, on the characters of the model's alphabet
Whitespace == {" ", "\t", "\n", "\r", "\f"}

HexDigit == {"0", "1", "2", "3", "4", "5", "6", "7", "8", "9",
             "a", "b", "c", "d", "e", "f", "A", "B", "C", "D", "E", "F"}

(***************************************************************************)
(* Symbols that are not ASCII are written by code point.                   *)
(***************************************************************************)
WHITE_HEAVY_CHECK_MARK == "{U+2705}"
WHITE_LARGE_SQUARE     == "{U+2B1C}"
BALLOT_BOX             == "{U+2610}"
BALLOT_BOX_WITH_CHECK  == "{U+2611}"

(***************************************************************************)
(* parser.rs: the post-processing stages of convert.                       *)
(***************************************************************************)

\* BLOCK_TAG_WHITESPACE_RE  >\s+<  replaced by "><"
RECURSIVE CollapseFrom(_, _)
CollapseFrom(s, i) ==
    LET j == Find(s, ">", i)
        k == SkipWhile(s, j + 1, Whitespace)
    IN  IF j = 0 THEN From(s, i)
        ELSE IF k > j + 1 /\ k <= Len(s) /\ At(s, k) = "<"
             THEN SubSeq(s, i, j - 1) \o "><" \o CollapseFrom(s, k + 1)
             ELSE SubSeq(s, i, j) \o CollapseFrom(s, j + 1)

\* the mutant drops the first pass (whitespace between tags)
normalize_whitespace_keep_gaps(html) == Replace(html, "\n", " ")

normalize_whitespace(html) ==
    LET collapsed == CollapseFrom(html, 1)
    IN  Replace(collapsed, "\n", " ")

PreBgPrefix == "<pre style=\"background-color:#"
PreBgSuffix == ";\">"
GithubPre ==
    "<pre style=\"background-color:#f6f8fa;padding:16px;border-radius:6px;"
    \o "overflow:auto;font-family:monospace;\">"

\* PRE_BG_COLOR_RE  <pre style="background-color:#[0-9a-fA-F]+;">
RECURSIVE FixPreFrom(_, _)
FixPreFrom(s, i) ==
    LET j == Find(s, PreBgPrefix, i)
        c == j + Len(PreBgPrefix)
        k == SkipWhile(s, c, HexDigit)
    IN  IF j = 0 THEN From(s, i)
        ELSE IF k > c /\ StartsWithAt(s, k, PreBgSuffix)
             THEN SubSeq(s, i, j - 1) \o GithubPre
                  \o FixPreFrom(s, k + Len(PreBgSuffix))
             ELSE SubSeq(s, i, j) \o FixPreFrom(s, j + 1)

fix_pre_background_color(html) == FixPreFrom(html, 1)

\* the mutant keeps the <br> of the last newline
CodeContentAllBr(content) == Replace(content, "\n", "<br>")

\* the closure of convert_code_block_newlines on capture group 2
CodeContentWithBr(content) ==
    LET content_with_br == Replace(content, "\n", "<br>")
        suffix == "<br></span>"
    IN  IF EndsWith(content_with_br, suffix)
        THEN SubSeq(content_with_br, 1, Len(content_with_br) - Len(suffix))
             \o "</span>"
        ELSE content_with_br

CodeClose == "</code></pre>"

\* CODE_BLOCK_RE  (<pre[^>]*><code[^>]*>)([\s\S]*?)(</code></pre>)
\* the matches; from..to spans capture group 2, which alone is rewritten
RECURSIVE CodeBlockMatches(_, _)
CodeBlockMatches(s, i) ==
    LET j == Find(s, "<pre", i)
        k == IF j = 0 THEN 0 ELSE Find(s, ">", j + 4)
        m == IF k = 0 \/ ~StartsWithAt(s, k + 1, "<code") THEN 0
             ELSE Find(s, ">", k + 6)
        n == IF m = 0 THEN 0 ELSE Find(s, CodeClose, m + 1)
    IN  IF j = 0 THEN <<>>
        ELSE IF n = 0 THEN CodeBlockMatches(s, j + 1)
        ELSE <<[from |-> m + 1, to |-> n - 1, cap |-> SubSeq(s, m + 1, n - 1)]>>
             \o CodeBlockMatches(s, n + Len(CodeClose))

convert_code_block_newlines(html) ==
    Splice(html, CodeBlockMatches(html, 1), CodeContentWithBr)

TypeCheckbox == "type=\"checkbox\""

\* <input[^>]*type="checkbox"[^>]*checked[^>]*/?\s*>  on the text between
\* "<input" and the first ">": the classes [^>] keep the match in one tag
CheckedInterior(t) ==
    LET a == Find(t, TypeCheckbox, 1)
    IN  a # 0 /\ Find(t, "checked", a + Len(TypeCheckbox)) # 0

\* <input[^>]*type="checkbox"[^>]*/?\s*>
UncheckedInterior(t) == Find(t, TypeCheckbox, 1) # 0

\* CHECKED_CHECKBOX_RE.replace_all(html, sym)
RECURSIVE ReplaceCheckedFrom(_, _, _)
ReplaceCheckedFrom(s, sym, i) ==
    LET j == Find(s, "<input", i)
        e == IF j = 0 THEN 0 ELSE Find(s, ">", j + 6)
    IN  IF j = 0 \/ e = 0 THEN From(s, i)
        ELSE IF CheckedInterior(SubSeq(s, j + 6, e - 1))
             THEN SubSeq(s, i, j - 1) \o sym \o ReplaceCheckedFrom(s, sym, e + 1)
             ELSE SubSeq(s, i, j) \o ReplaceCheckedFrom(s, sym, j + 1)

\* UNCHECKED_CHECKBOX_RE.replace_all(html, sym)
RECURSIVE ReplaceUncheckedFrom(_, _, _)
ReplaceUncheckedFrom(s, sym, i) ==
    LET j == Find(s, "<input", i)
        e == IF j = 0 THEN 0 ELSE Find(s, ">", j + 6)
    IN  IF j = 0 \/ e = 0 THEN From(s, i)
        ELSE IF UncheckedInterior(SubSeq(s, j + 6, e - 1))
             THEN SubSeq(s, i, j - 1) \o sym \o ReplaceUncheckedFrom(s, sym, e + 1)
             ELSE SubSeq(s, i, j) \o ReplaceUncheckedFrom(s, sym, j + 1)

\* the mutant runs only the second pattern: every box becomes the square
convert_checkboxes_all_unchecked(html) ==
    ReplaceUncheckedFrom(html, WHITE_LARGE_SQUARE \o " ", 1)

convert_checkboxes_to_unicode(html) ==
    LET result == ReplaceCheckedFrom(html, WHITE_HEAVY_CHECK_MARK \o " ", 1)
    IN  ReplaceUncheckedFrom(result, WHITE_LARGE_SQUARE \o " ", 1)

decode_html_entities(s) ==
    IF ~Contains(s, "&") THEN s
    ELSE Replace(Replace(Replace(Replace(Replace(s,
            "&amp;", "&"), "&lt;", "<"), "&gt;", ">"), "&quot;", "\""), "&#39;", "'")

html_escape(s) ==
    Replace(Replace(Replace(Replace(Replace(s,
        "&", "&amp;"), "<", "&lt;"), ">", "&gt;"), "\"", "&quot;"), "'", "&#39;")

(***************************************************************************)
(* Collaborators of the post-processing stages.  A fallible function       *)
(* returns a Result: [ok |-> TRUE, val |-> v] or [ok |-> FALSE].           *)
(***************************************************************************)
Ok(v) == [ok |-> TRUE, val |-> v]
Err   == [ok |-> FALSE, val |-> ""]

Digits == "0123456789"

\* format!("{}", n) of an unsigned integer
RECURSIVE FormatU32(_)
FormatU32(n) ==
    IF n < 10 THEN At(Digits, n + 1)
    ELSE FormatU32(n \div 10) \o At(Digits, (n % 10) + 1)

\* LaTeX sources MathJax cannot typeset
LatexErrors == {"\\frac{", "\\frac{&lt;", "\\frac{<"}

\* Mermaid definitions the renderer rejects
MermaidErrors == {"grph LR\n", "grph &lt;\n", "grph <\n"}

\* an SVG document, by what svg_render reads of it
Svg(w, h) == [valid |-> TRUE, width |-> w, height |-> h]
InvalidSvg == [valid |-> FALSE, width |-> 0, height |-> 0]

\* js_runtime::convert_latex_to_svg: Ok(svg) or Err, a function of its input
convert_latex_to_svg(latex, display) ==
    IF latex \in LatexErrors THEN Err
    ELSE IF latex = "" THEN Ok(Svg(0, 0))
    ELSE Ok(Svg(Len(latex) * 8, IF display THEN 24 ELSE 16))

\* mermaid_rs_renderer::render: Ok(svg) or Err, a function of its input
mermaid_render(definition) ==
    IF definition \in MermaidErrors THEN Err
    ELSE Ok(Svg(Len(definition) * 8, 40))

RENDER_SCALE == 4

\* base64 of the encoded PNG: opaque, a function of the picture's size
PngBase64(w, h) == "iVBORw0KGgo" \o FormatU32(w) \o "x" \o FormatU32(h)

\* svg_render::render_svg_to_png
render_svg_to_png(svg) ==
    LET render_width  == svg.width * RENDER_SCALE
        render_height == svg.height * RENDER_SCALE
    IN  IF ~svg.valid THEN Err                               \* SVG parse error
        ELSE IF render_width = 0 \/ render_height = 0 THEN Err \* Pixmap::new
        ELSE Ok([png_base64 |-> PngBase64(render_width, render_height),
                 display_width |-> svg.width,
                 display_height |-> svg.height])

latex_to_svg(latex, display) ==
    LET svg == convert_latex_to_svg(latex, display)
        render_result == render_svg_to_png(svg.val)
        alt == Replace(latex, "\"", "&quot;")
        style == IF display THEN "display:block;margin:0.5em auto;"
                 ELSE "vertical-align:middle;"
    IN  IF ~svg.ok THEN Err
        ELSE IF ~render_result.ok THEN Err
        ELSE Ok("<img src=\"data:image/png;base64,"
                \o render_result.val.png_base64
                \o "\" alt=\"" \o alt
                \o "\" width=\"" \o FormatU32(render_result.val.display_width)
                \o "\" height=\"" \o FormatU32(render_result.val.display_height)
                \o "\" style=\"" \o style \o "\">")

\* the first and the third closure of convert_math_to_svg
DisplayMathElement(latex_raw) ==
    LET latex == decode_html_entities(latex_raw)
        r == latex_to_svg(latex, TRUE)
    IN  IF r.ok THEN "<div class=\"math math-display\">" \o r.val \o "</div>"
        ELSE "<div class=\"math math-display math-error\">$$"
             \o html_escape(latex) \o "$$</div>"

\* the second closure of convert_math_to_svg
InlineMathElement(latex_raw) ==
    LET latex == decode_html_entities(latex_raw)
        r == latex_to_svg(latex, FALSE)
    IN  IF r.ok THEN "<span class=\"math math-inline\">" \o r.val \o "</span>"
        ELSE "<span class=\"math math-inline math-error\">$"
             \o html_escape(latex) \o "$</span>"

\* str::trim
Trim(s) ==
    LET a == SkipWhile(s, 1, Whitespace)
        ends == {j \in 1..Len(s) : At(s, j) \notin Whitespace}
        b == IF ends = {} THEN 0 ELSE CHOOSE j \in ends : \A k \in ends : k <= j
    IN  IF ends = {} THEN "" ELSE SubSeq(s, a, b)

DisplaySpanOpen == "<span data-math-style=\"display\">"
InlineSpanOpen  == "<span data-math-style=\"inline\">"
MathCodeOpen    == "<pre><code class=\"language-math\" data-math-style=\"display\">"

\* the matches of  open([^<]*)close  in s from i
RECURSIVE TextElementMatches(_, _, _, _)
TextElementMatches(s, open, close, i) ==
    LET j == Find(s, open, i)
        c == j + Len(open)
        k == Find(s, "<", c)
    IN  IF j = 0 THEN <<>>
        ELSE IF k # 0 /\ StartsWithAt(s, k, close)
             THEN <<[from |-> j, to |-> k + Len(close) - 1, cap |-> SubSeq(s, c, k - 1)]>>
                  \o TextElementMatches(s, open, close, k + Len(close))
             ELSE TextElementMatches(s, open, close, j + 1)

\* DISPLAY_MATH_RE  <span data-math-style="display">([^<]*)</span>
DisplayMathMatches(html) == TextElementMatches(html, DisplaySpanOpen, "</span>", 1)

\* INLINE_MATH_RE  <span data-math-style="inline">([^<]*)</span>
InlineMathMatches(html) == TextElementMatches(html, InlineSpanOpen, "</span>", 1)

\* MATH_CODE_RE
\* <pre><code class="language-math" data-math-style="display">([^<]*)</code></pre>
MathCodeMatches(html) == TextElementMatches(html, MathCodeOpen, CodeClose, 1)

\* the third closure of convert_math_to_svg: the capture is trimmed
MathCodeElement(latex_raw) == DisplayMathElement(Trim(latex_raw))

convert_math_to_svg(html) ==
    LET result  == Splice(html, DisplayMathMatches(html), DisplayMathElement)
        result2 == Splice(result, InlineMathMatches(result), InlineMathElement)
    IN  Splice(result2, MathCodeMatches(result2), MathCodeElement)

\* SPAN_TAG_RE  </?span[^>]*>  replaced by ""
RECURSIVE StripSpanFrom(_, _)
StripSpanFrom(s, i) ==
    LET a == Find(s, "<span", i)
        b == Find(s, "</span", i)
        j == IF a = 0 THEN b ELSE IF b = 0 THEN a ELSE IF a < b THEN a ELSE b
        n == IF j = 0 THEN 0 ELSE IF j = a THEN 5 ELSE 6
        e == IF j = 0 THEN 0 ELSE Find(s, ">", j + n)
    IN  IF j = 0 \/ e = 0 THEN From(s, i)
        ELSE SubSeq(s, i, j - 1) \o StripSpanFrom(s, e + 1)

strip_span_tags(html) == StripSpanFrom(html, 1)

mermaid_to_png(definition) ==
    LET svg == mermaid_render(definition)
        render_result == render_svg_to_png(svg.val)
    IN  IF ~svg.ok THEN Err
        ELSE IF ~render_result.ok THEN Err
        ELSE Ok("<img src=\"data:image/png;base64,"
                \o render_result.val.png_base64
                \o "\" alt=\"Mermaid diagram"
                \o "\" width=\"" \o FormatU32(render_result.val.display_width)
                \o "\" height=\"" \o FormatU32(render_result.val.display_height)
                \o "\" style=\"display:block;margin:0.5em auto;\">")

\* the definition the closure of convert_mermaid_to_png renders
MermaidDefinition(definition_raw) ==
    decode_html_entities(strip_span_tags(definition_raw))

\* the closure of convert_mermaid_to_png
MermaidElement(definition_raw) ==
    LET definition == MermaidDefinition(definition_raw)
        r == mermaid_to_png(definition)
    IN  IF r.ok THEN "<div class=\"mermaid-diagram\">" \o r.val \o "</div>"
        ELSE "<pre class=\"mermaid-error\"><code>"
             \o html_escape(definition) \o "</code></pre>"

MermaidCodeOpen == "<code class=\"language-mermaid\">"

\* MERMAID_RE  <pre[^>]*><code class="language-mermaid">([\s\S]*?)</code></pre>
RECURSIVE MermaidMatches(_, _)
MermaidMatches(s, i) ==
    LET j == Find(s, "<pre", i)
        k == IF j = 0 THEN 0 ELSE Find(s, ">", j + 4)
        c == k + 1 + Len(MermaidCodeOpen)
        n == IF k = 0 \/ ~StartsWithAt(s, k + 1, MermaidCodeOpen) THEN 0
             ELSE Find(s, CodeClose, c)
    IN  IF j = 0 THEN <<>>
        ELSE IF n = 0 THEN MermaidMatches(s, j + 1)
        ELSE <<[from |-> j, to |-> n + Len(CodeClose) - 1, cap |-> SubSeq(s, c, n - 1)]>>
             \o MermaidMatches(s, n + Len(CodeClose))

convert_mermaid_to_png(html) == Splice(html, MermaidMatches(html, 1), MermaidElement)

\* what the closure of convert_mermaid_to_png prints: one line per failure
MermaidErrorLines(html) ==
    LET ms == MermaidMatches(html, 1)
        failed == SelectSeq(ms, LAMBDA m : ~mermaid_to_png(MermaidDefinition(m.cap)).ok)
    IN  [k \in 1..Len(failed) |-> "Mermaid rendering error"]

(***************************************************************************)
(* comrak::markdown_to_html_with_plugins under COMRAK_OPTIONS (GFM tables, *)
(* task lists, math dollars, math code) and the syntect adapter, on        *)
(* documents whose blocks are ATX headings, paragraphs, tight bullet       *)
(* lists, pipe tables, fenced code blocks and link reference definitions,  *)
(* separated by blank lines.                                               *)
(***************************************************************************)

\* s.split(sep) as a sequence of strings
RECURSIVE SplitFrom(_, _, _)
SplitFrom(s, sep, i) ==
    LET j == Find(s, sep, i)
    IN  IF j = 0 THEN <<From(s, i)>>
        ELSE <<SubSeq(s, i, j - 1)>> \o SplitFrom(s, sep, j + Len(sep))

Split(s, sep) == SplitFrom(s, sep, 1)

Uppercase == "ABCDEFGHIJKLMNOPQRSTUVWXYZ"
Lowercase == "abcdefghijklmnopqrstuvwxyz"

Alnum == {At(Uppercase, i) : i \in 1..26} \cup {At(Lowercase, i) : i \in 1..26}
         \cup {At(Digits, i) : i \in 1..10}

\* case folding of a link label
RECURSIVE ToLower(_)
ToLower(s) ==
    IF s = "" THEN ""
    ELSE LET u == Find(Uppercase, At(s, 1), 1)
         IN  (IF u = 0 THEN At(s, 1) ELSE At(Lowercase, u)) \o ToLower(From(s, 2))

\* number of leading spaces of a line
Indent(line) == SkipWhile(line, 1, {" "}) - 1

IsBlank(line) == SkipWhile(line, 1, {" ", "\t"}) > Len(line)

\* escaping of text and attribute values in the HTML renderer
EscapeHtml(s) ==
    Replace(Replace(Replace(Replace(s,
        "&", "&amp;"), "<", "&lt;"), ">", "&gt;"), "\"", "&quot;")

\* ---- link reference definitions ----

\* [label]: destination   at the start of a block
IsRefDef(line) ==
    LET c == Find(line, "]:", 2)
    IN  /\ StartsWith(line, "[")
        /\ c > 2
        /\ Find(SubSeq(line, 2, c - 1), "]", 1) = 0
        /\ Trim(From(line, c + 2)) # ""

RefLabel(line) == ToLower(SubSeq(line, 2, Find(line, "]:", 2) - 1))

\* the mutant keeps the white space between the colon and the destination
RefUrlUntrimmed(line) == From(line, Find(line, "]:", 2) + 2)

\* the destination of a definition
RefUrl(line) == Trim(From(line, Find(line, "]:", 2) + 2))

\* the mutant lets a later definition of a label replace an earlier one
RECURSIVE RefMapLastWins(_, _, _)
RefMapLastWins(lines, i, para) ==
    IF i > Len(lines) THEN <<>>
    ELSE LET line == lines[i]
             def  == ~para /\ IsRefDef(line)
             rest == RefMapLastWins(lines, i + 1, ~def /\ ~IsBlank(line))
         IN  IF def /\ ~(\E k \in 1..Len(rest) : rest[k].label = RefLabel(line))
             THEN <<[label |-> RefLabel(line), url |-> RefUrl(line)]>> \o rest
             ELSE rest

\* the definitions of a document, in document order, the first of each label
\* (a definition cannot interrupt a paragraph: para = inside one)
RECURSIVE RefMapFrom(_, _, _)
RefMapFrom(lines, i, para) ==
    IF i > Len(lines) THEN <<>>
    ELSE LET line == lines[i]
             def  == ~para /\ IsRefDef(line)
             rest == RefMapFrom(lines, i + 1, ~def /\ ~IsBlank(line))
         IN  IF def
             THEN <<[label |-> RefLabel(line), url |-> RefUrl(line)]>>
                  \o SelectSeq(rest, LAMBDA r : r.label # RefLabel(line))
             ELSE rest

HasRef(refs, label) == \E k \in 1..Len(refs) : refs[k].label = ToLower(label)

LookupRef(refs, label) ==
    refs[CHOOSE k \in 1..Len(refs) : refs[k].label = ToLower(label)].url

\* ---- inlines ----

\* position of the closing delimiter d for an opener at i, or 0: the closer
\* is preceded by a non-space, and for "_" not followed by a letter or digit
CloserOf(s, d, i) ==
    LET c == Len(d)
        ok == {j \in (i + c + 1)..(Len(s) - c + 1) :
                 /\ StartsWithAt(s, j, d)
                 /\ At(s, j - 1) \notin Whitespace
                 /\ ~StartsWithAt(s, j + c, At(d, 1))
                 /\ (At(d, 1) = "_" => (j + c > Len(s) \/ At(s, j + c) \notin Alnum))}
    IN  IF ok = {} THEN 0 ELSE CHOOSE j \in ok : \A k \in ok : j <= k

\* the mutant knows the asterisk delimiters only
CanOpenAsterisk(s, d, i) ==
    LET c == Len(d)
    IN  /\ At(d, 1) = "*"
        /\ StartsWithAt(s, i, d)
        /\ i + c <= Len(s)
        /\ At(s, i + c) \notin Whitespace
        /\ At(s, i + c) # At(d, 1)
        /\ CloserOf(s, d, i) # 0

\* can the delimiter d open emphasis at i: followed by a non-space, and
\* for "_" not preceded by a letter or digit
CanOpen(s, d, i) ==
    LET c == Len(d)
    IN  /\ StartsWithAt(s, i, d)
        /\ i + c <= Len(s)
        /\ At(s, i + c) \notin Whitespace
        /\ At(s, i + c) # At(d, 1)
        /\ (At(d, 1) = "_" => (i = 1 \/ At(s, i - 1) \notin Alnum))
        /\ CloserOf(s, d, i) # 0

\* end of inline math opened by $ at i (closing $ not preceded by a space)
MathCloser(s, i) ==
    LET ok == {j \in (i + 2)..Len(s) :
                 At(s, j) = "$" /\ At(s, j - 1) \notin Whitespace}
    IN  IF ok = {} \/ i + 1 > Len(s) \/ At(s, i + 1) \in Whitespace \cup {"$"}
        THEN 0
        ELSE CHOOSE j \in ok : \A k \in ok : j <= k

\* [text][label] at i: positions of the two closing brackets, or <<0, 0>>
RefLinkAt(s, i) ==
    LET a == Find(s, "]", i + 1)
        b == IF a = 0 \/ ~StartsWithAt(s, a + 1, "[") THEN 0
             ELSE Find(s, "]", a + 2)
    IN  IF At(s, i) = "[" /\ a > i + 1 /\ b > a + 2 THEN <<a, b>> ELSE <<0, 0>>

\* the characters of tag and attribute names and of unquoted values
NameChars == Alnum \cup HexDigit \cup {"_", "-", ":", "."}

\* the attributes of an open tag from position j on, each after whitespace,
\* a name alone or with = and a value in double quotes or without quotes:
\* the position of the > that closes the tag, 0 if there is no tag
RECURSIVE TagEndFrom(_, _)
TagEndFrom(s, j) ==
    LET k == SkipWhile(s, j, Whitespace)
        n == SkipWhile(s, k, NameChars)
        q == Find(s, "\"", n + 2)
        v == SkipWhile(s, n + 1, NameChars)
    IN  IF At(s, k) = ">" THEN k
        ELSE IF StartsWithAt(s, k, "/>") THEN k + 1
        ELSE IF k = j \/ n = k THEN 0
        ELSE IF At(s, n) # "=" THEN TagEndFrom(s, n)
        ELSE IF At(s, n + 1) = "\"" THEN (IF q = 0 THEN 0 ELSE TagEndFrom(s, q + 1))
        ELSE IF v = n + 1 THEN 0
        ELSE TagEndFrom(s, v)

\* raw inline HTML at i, an open tag or a closing tag: the position of its
\* >, 0 if there is none
RawTagEnd(s, i) ==
    LET closing == StartsWithAt(s, i, "</")
        a == IF closing THEN i + 2 ELSE i + 1
        n == SkipWhile(s, a, Alnum \cup HexDigit \cup {"-"})
        k == SkipWhile(s, n, Whitespace)
    IN  IF At(s, i) # "<" \/ At(s, a) \notin Alnum THEN 0
        ELSE IF closing THEN (IF At(s, k) = ">" THEN k ELSE 0)
        ELSE TagEndFrom(s, n)

\* characters that begin no inline construct
Plain == Alnum \cup {" ", ".", ",", "#", ">", "&", "^", "=", "{", "}", "\n", "\\", "-", ":", "/"}

RECURSIVE Inlines(_, _, _)
Inlines(s, ctx, i) ==
    IF i > Len(s) THEN ""
    ELSE LET ch == At(s, i)
             strong == IF CanOpen(s, "**", i) THEN "**"
                       ELSE IF CanOpen(s, "__", i) THEN "__" ELSE ""
             em     == IF CanOpen(s, "*", i) THEN "*"
                       ELSE IF CanOpen(s, "_", i) THEN "_" ELSE ""
             dd     == IF ctx.opts.math_dollars /\ StartsWithAt(s, i, "$$") THEN Find(s, "$$", i + 2) ELSE 0
             md     == IF ctx.opts.math_dollars /\ ch = "$" THEN MathCloser(s, i) ELSE 0
             link   == IF ch = "[" THEN RefLinkAt(s, i) ELSE <<0, 0>>
             raw    == IF ctx.opts.unsafe_ THEN RawTagEnd(s, i) ELSE 0
         IN  IF strong # ""
             THEN LET j == CloserOf(s, strong, i)
                  IN  "<strong>" \o Inlines(SubSeq(s, i + 2, j - 1), ctx, 1)
                      \o "</strong>" \o Inlines(s, ctx, j + 2)
             ELSE IF em # ""
             THEN LET j == CloserOf(s, em, i)
                  IN  "<em>" \o Inlines(SubSeq(s, i + 1, j - 1), ctx, 1)
                      \o "</em>" \o Inlines(s, ctx, j + 1)
             ELSE IF dd > i + 2
             THEN DisplaySpanOpen \o EscapeHtml(SubSeq(s, i + 2, dd - 1))
                  \o "</span>" \o Inlines(s, ctx, dd + 2)
             ELSE IF md # 0
             THEN InlineSpanOpen \o EscapeHtml(SubSeq(s, i + 1, md - 1))
                  \o "</span>" \o Inlines(s, ctx, md + 1)
             ELSE IF link[1] # 0 /\ HasRef(ctx.refs, SubSeq(s, link[1] + 2, link[2] - 1))
             THEN "<a href=\""
                  \o EscapeHtml(LookupRef(ctx.refs, SubSeq(s, link[1] + 2, link[2] - 1)))
                  \o "\">" \o Inlines(SubSeq(s, i + 1, link[1] - 1), ctx, 1)
                  \o "</a>" \o Inlines(s, ctx, link[2] + 1)
             ELSE IF raw # 0
             THEN SubSeq(s, i, raw) \o Inlines(s, ctx, raw + 1)
             ELSE LET n == SkipWhile(s, i + 1, Plain)
                  IN  EscapeHtml(SubSeq(s, i, n - 1)) \o Inlines(s, ctx, n)

\* ---- blocks ----

\* the mutant takes any run of "#" for a heading marker, space or not
HeadingLevelNoSpace(line) ==
    LET t == From(line, Indent(line) + 1)
        k == SkipWhile(t, 1, {"#"}) - 1
    IN  IF Indent(line) <= 3 /\ k \in 1..6 THEN k ELSE 0

\* level of an ATX heading line: 1..6 "#", then a space, a tab or the end of
\* the line; 0 if the line is no heading
HeadingLevel(line) ==
    LET t == From(line, Indent(line) + 1)
        k == SkipWhile(t, 1, {"#"}) - 1
    IN  IF /\ Indent(line) <= 3
           /\ k \in 1..6
           /\ (k = Len(t) \/ At(t, k + 1) \in {" ", "\t"})
        THEN k ELSE 0

\* the content of a heading line: trimmed, without the closing "#" sequence
HeadingText(line) ==
    LET t == From(line, Indent(line) + 1)
        k == SkipWhile(t, 1, {"#"}) - 1
        c == Trim(From(t, k + 1))
        body == {j \in 1..Len(c) : At(c, j) # "#"}
        e == IF body = {} THEN 0 ELSE CHOOSE j \in body : \A m \in body : m <= j
    IN  IF e = Len(c) THEN c
        ELSE IF e = 0 THEN ""
        ELSE IF At(c, e) \in {" ", "\t"} THEN Trim(SubSeq(c, 1, e))
        ELSE c

\* a code fence; the model writes the tilde form of the fence, which comrak
\* treats as it treats the backquote form
IsFence(line) == Indent(line) <= 3 /\ StartsWith(From(line, Indent(line) + 1), "~~~")

FenceInfo(line) == Trim(From(line, Indent(line) + 4))

\* index of the closing fence after the opening fence at i; Len + 1 if none
FenceEnd(lines, i) ==
    LET closes == {j \in (i + 1)..Len(lines) : IsFence(lines[j]) /\ FenceInfo(lines[j]) = ""}
    IN  IF closes = {} THEN Len(lines) + 1
        ELSE CHOOSE j \in closes : \A k \in closes : j <= k

SyntectPre  == "<pre style=\"background-color:#ffffff;\">"
SyntectSpan == "<span style=\"color:#323232;\">"

\* the lines i..j-1 of a code block, each with its newline
RECURSIVE CodeLiteral(_, _, _)
CodeLiteral(lines, i, j) ==
    IF i >= j THEN "" ELSE EscapeHtml(lines[i]) \o "\n" \o CodeLiteral(lines, i + 1, j)

\* syntect, plain text: one span per line, the newline inside it
RECURSIVE Highlighted(_, _, _)
Highlighted(lines, i, j) ==
    IF i >= j THEN ""
    ELSE SyntectSpan \o EscapeHtml(lines[i]) \o "\n</span>" \o Highlighted(lines, i + 1, j)

CodeBlock(lines, i, j, ctx) ==
    IF ctx.opts.math_code /\ FenceInfo(lines[i]) = "math"
    THEN MathCodeOpen \o CodeLiteral(lines, i + 1, j) \o "</code></pre>\n"
    ELSE SyntectPre \o "<code class=\"language-" \o FenceInfo(lines[i]) \o "\">"
         \o Highlighted(lines, i + 1, j) \o "</code></pre>\n"

\* the cells of a table row: split on "|", trimmed, outer empty cells dropped
Cells(line) ==
    LET raw == Split(Trim(line), "|")
        a == IF Len(raw) > 1 /\ raw[1] = "" THEN 2 ELSE 1
        b == IF Len(raw) > 1 /\ raw[Len(raw)] = "" THEN Len(raw) - 1 ELSE Len(raw)
    IN  [k \in 1..(b - a + 1) |-> Trim(raw[k + a - 1])]

\* a delimiter cell  :?-+:?
IsDelimCell(c) ==
    LET a == IF StartsWith(c, ":") THEN 2 ELSE 1
        b == SkipWhile(c, a, {"-"})
    IN  b > a /\ (b = Len(c) + 1 \/ (b = Len(c) /\ At(c, b) = ":"))

IsDelimRow(line) ==
    /\ Contains(line, "|") /\ Contains(line, "-")
    /\ \A k \in 1..Len(Cells(line)) : IsDelimCell(Cells(line)[k])

\* the attribute a delimiter cell gives the cells of its column
AlignAttr(c) ==
    IF StartsWith(c, ":") /\ EndsWith(c, ":") THEN " align=\"center\""
    ELSE IF StartsWith(c, ":") THEN " align=\"left\""
    ELSE IF EndsWith(c, ":") THEN " align=\"right\""
    ELSE ""

IsTableStart(lines, i) ==
    /\ Contains(lines[i], "|")
    /\ i + 1 <= Len(lines)
    /\ IsDelimRow(lines[i + 1])
    /\ Len(Cells(lines[i])) = Len(Cells(lines[i + 1]))

\* first line after the table that starts at i
TableEnd(lines, i) ==
    LET stops == {j \in (i + 2)..Len(lines) : IsBlank(lines[j]) \/ ~Contains(lines[j], "|")}
    IN  IF stops = {} THEN Len(lines) + 1
        ELSE CHOOSE j \in stops : \A k \in stops : j <= k

RECURSIVE TableCells(_, _, _, _, _)
TableCells(tag, cells, delim, ctx, k) ==
    IF k > Len(delim) THEN ""
    ELSE "<" \o tag \o AlignAttr(delim[k]) \o ">"
         \o (IF k <= Len(cells) THEN Inlines(cells[k], ctx, 1) ELSE "")
         \o "</" \o tag \o ">\n" \o TableCells(tag, cells, delim, ctx, k + 1)

RECURSIVE TableRows(_, _, _, _, _)
TableRows(lines, i, j, delim, ctx) ==
    IF i >= j THEN ""
    ELSE "<tr>\n" \o TableCells("td", Cells(lines[i]), delim, ctx, 1) \o "</tr>\n"
         \o TableRows(lines, i + 1, j, delim, ctx)

Table(lines, i, j, ctx) ==
    LET delim == Cells(lines[i + 1])
    IN  "<table>\n<thead>\n<tr>\n"
        \o TableCells("th", Cells(lines[i]), delim, ctx, 1)
        \o "</tr>\n</thead>\n"
        \o (IF i + 2 < j
            THEN "<tbody>\n" \o TableRows(lines, i + 2, j, delim, ctx) \o "</tbody>\n"
            ELSE "")
        \o "</table>\n"

\* a bullet list item line: indentation, "-", a space, content
IsBullet(line) ==
    LET t == From(line, Indent(line) + 1)
    IN  StartsWith(t, "- ") /\ Trim(From(t, 3)) # ""

ItemText(line) == Trim(From(line, Indent(line) + 3))

\* the content of a list item, a task item with its checkbox
ItemContent(text, ctx) ==
    IF ctx.opts.tasklist /\ StartsWith(text, "[ ] ")
    THEN "<input type=\"checkbox\" disabled=\"\" /> " \o Inlines(From(text, 5), ctx, 1)
    ELSE IF ctx.opts.tasklist /\ (StartsWith(text, "[x] ") \/ StartsWith(text, "[X] "))
    THEN "<input type=\"checkbox\" checked=\"\" disabled=\"\" /> "
         \o Inlines(From(text, 5), ctx, 1)
    ELSE Inlines(text, ctx, 1)

\* first line after the list that starts at i
ListEnd(lines, i) ==
    LET stops == {j \in (i + 1)..Len(lines) : ~IsBullet(lines[j])}
    IN  IF stops = {} THEN Len(lines) + 1
        ELSE CHOOSE j \in stops : \A k \in stops : j <= k

\* the mutant closes the item before it opens the nested list
RECURSIVE ItemsSibling(_, _, _, _, _)
ItemsSibling(lines, i, j, ind, ctx) ==
    IF i >= j \/ Indent(lines[i]) < ind THEN [html |-> "", next |-> i]
    ELSE LET content == ItemContent(ItemText(lines[i]), ctx)
             nested  == i + 1 < j /\ Indent(lines[i + 1]) >= ind + 2
             sub     == ItemsSibling(lines, i + 1, j, Indent(lines[i + 1]), ctx)
             rest    == ItemsSibling(lines, IF nested THEN sub.next ELSE i + 1, j, ind, ctx)
         IN  [html |-> "<li>" \o content
                       \o (IF nested
                           THEN "</li>\n<ul>\n" \o sub.html \o "</ul>\n"
                           ELSE "</li>\n")
                       \o rest.html,
              next |-> rest.next]

\* the items of one list at indentation ind, from line i; a line indented to
\* the content of the item before it opens a list inside that item
RECURSIVE Items(_, _, _, _, _)
Items(lines, i, j, ind, ctx) ==
    IF i >= j \/ Indent(lines[i]) < ind THEN [html |-> "", next |-> i]
    ELSE LET content == ItemContent(ItemText(lines[i]), ctx)
             nested  == i + 1 < j /\ Indent(lines[i + 1]) >= ind + 2
             sub     == Items(lines, i + 1, j, Indent(lines[i + 1]), ctx)
             rest    == Items(lines, IF nested THEN sub.next ELSE i + 1, j, ind, ctx)
         IN  [html |-> "<li>" \o content
                       \o (IF nested
                           THEN "\n<ul>\n" \o sub.html \o "</ul>\n</li>\n"
                           ELSE "</li>\n")
                       \o rest.html,
              next |-> rest.next]

List(lines, i, j, ctx) ==
    "<ul>\n" \o Items(lines, i, j, Indent(lines[i]), ctx).html \o "</ul>\n"

\* can the line start a block in the middle of a paragraph
Interrupts(line) ==
    IsBlank(line) \/ HeadingLevel(line) # 0 \/ IsFence(line) \/ IsBullet(line)

ParagraphEnd(lines, i) ==
    LET stops == {j \in (i + 1)..Len(lines) : Interrupts(lines[j])}
    IN  IF stops = {} THEN Len(lines) + 1
        ELSE CHOOSE j \in stops : \A k \in stops : j <= k

RECURSIVE JoinLines(_, _, _)
JoinLines(lines, i, j) ==
    IF i >= j THEN ""
    ELSE Trim(lines[i]) \o (IF i + 1 < j THEN "\n" ELSE "") \o JoinLines(lines, i + 1, j)

RECURSIVE Blocks(_, _, _)
Blocks(lines, i, ctx) ==
    IF i > Len(lines) THEN ""
    ELSE LET line == lines[i]
             k == HeadingLevel(line)
         IN  IF IsBlank(line) THEN Blocks(lines, i + 1, ctx)
             ELSE IF k # 0
             THEN "<h" \o FormatU32(k) \o ">" \o Inlines(HeadingText(line), ctx, 1)
                  \o "</h" \o FormatU32(k) \o ">\n" \o Blocks(lines, i + 1, ctx)
             ELSE IF IsFence(line)
             THEN CodeBlock(lines, i, FenceEnd(lines, i), ctx)
                  \o Blocks(lines, FenceEnd(lines, i) + 1, ctx)
             ELSE IF IsBullet(line)
             THEN List(lines, i, ListEnd(lines, i), ctx)
                  \o Blocks(lines, ListEnd(lines, i), ctx)
             ELSE IF ctx.opts.table /\ IsTableStart(lines, i)
             THEN Table(lines, i, TableEnd(lines, i), ctx)
                  \o Blocks(lines, TableEnd(lines, i), ctx)
             ELSE IF IsRefDef(line) THEN Blocks(lines, i + 1, ctx)
             ELSE "<p>" \o Inlines(JoinLines(lines, i, ParagraphEnd(lines, i)), ctx, 1)
                  \o "</p>\n" \o Blocks(lines, ParagraphEnd(lines, i), ctx)

\* comrak::markdown_to_html_with_plugins(markdown, options, plugins), the
\* plugins being the syntect highlighter
markdown_to_html_with_plugins(markdown, options) ==
    LET lines == Split(markdown, "\n")
    IN  Blocks(lines, 1, [refs |-> RefMapFrom(lines, 1, FALSE), opts |-> options])

(***************************************************************************)
(* The documents convert is called on.                                     *)
(***************************************************************************)
Levels == 1..6

Hashes(k) == SubSeq("######", 1, k)

\* heading texts: plain ones, and one that ends in a closing sequence
PlainTexts == {"Hello", "a b"}
ClosedTexts == {"Hello #"}

\* a run of "#" with a space and a text, and one with no space after it
HeadingDocs ==
    {Hashes(k) \o " " \o t : k \in Levels, t \in PlainTexts \cup ClosedTexts}
    \cup {Hashes(k) \o t : k \in Levels, t \in {"Hello", ""}}

TaskListDoc == "- [ ] todo\n- [x] done"

NestedListDoc == "- parent\n  - child1\n  - child2"

DeepListDoc == "- a\n  - b\n    - c\n- d"

ListDocs ==
    { TaskListDoc,
      "- [X] done\n- plain",
      "- item1\n- item2",
      NestedListDoc,
      DeepListDoc }

\* a table of two columns with the delimiter cells a and b
TableOf(a, b) == "| A | B |\n|" \o a \o "|" \o b \o "|\n| 1 | 2 |"

TableDocs == {TableOf(a, b) : a \in {":--", "---"}, b \in {"--:", ":-:"}}

Url  == "https://example.com"
UrlB == "https://example.org/b"

\* the definition after the link, and before it
RefDocAfter == "[text][ref]\n\n[ref]: " \o Url

RefDocBefore == "[ref]: " \o Url \o "\n\n[text][ref]"

\* one key defined twice: on adjacent lines, and around the links
RefDocTwice == "[text][ref]\n\n[ref]: " \o Url \o "\n[ref]: " \o UrlB

RefDocAround ==
    "[ref]: " \o UrlB \o "\n\n[text][REF] and [more][ref]\n\n[Ref]: " \o Url

RefDocs == {RefDocAfter, RefDocBefore, RefDocTwice, RefDocAround, "[text][ref]"}

EmphasisDocs ==
    { "**bold** and *italic*", "**x**", "__x__", "*x*", "_x_", "snake_case_word" }

MathDocs ==
    { "The $x$ is famous.",
      "The $\\frac{$ fails.",
      "$$a<b$$",
      "~~~math\nx+y\n~~~",
      "~~~math\n\\frac{\n~~~",
      "The $\\frac{&lt;$ fails." }

MermaidDocs ==
    { "~~~mermaid\ngraph LR\n    A --> B\n~~~",
      "~~~mermaid\ngrph LR\n~~~",
      "~~~mermaid\ngrph &lt;\n~~~",
      "~~~mermaid\ngrph LR\n~~~\n\nThe $\\frac{$ fails.\n\n- [x] done" }

CodeDocs ==
    { "~~~text\nline one\nline two\n~~~",
      "~~~text\na\n\nb\n\n~~~",
      "First paragraph.\n\nSecond paragraph.",
      "First line\nsecond line.\n\n- one\n- two" }

\* the attributes of checkbox inputs written as raw HTML
BoxAttrs ==
    { " type=\"checkbox\" checked=\"\"", " checked=\"\" type=\"checkbox\"",
      " type=\"checkbox\"", " disabled=\"\" type=\"checkbox\"" }

RawHtmlDocs ==
    { "Box <input" \o a \o "> here" : a \in BoxAttrs }
    \cup { "see <img src=\"img.png\" alt=\"p\"> here" }

Docs == HeadingDocs \cup ListDocs \cup TableDocs \cup RefDocs \cup EmphasisDocs
        \cup MathDocs \cup MermaidDocs \cup CodeDocs \cup RawHtmlDocs

(***************************************************************************)
(* The process-wide cells: LazyLock statics of parser.rs, OnceLock of      *)
(* svg_render.rs.                                                          *)
(***************************************************************************)
Statics ==
    { "PRE_BG_COLOR_RE", "CHECKED_CHECKBOX_RE", "UNCHECKED_CHECKBOX_RE",
      "DISPLAY_MATH_RE", "INLINE_MATH_RE", "MATH_CODE_RE", "MERMAID_RE",
      "SPAN_TAG_RE", "CODE_BLOCK_RE", "BLOCK_TAG_WHITESPACE_RE",
      "COMRAK_OPTIONS", "SYNTECT_ADAPTER", "FONT_DB" }

\* the mutant forgets the table extension
build_options_no_table ==
    [ strikethrough |-> TRUE, table |-> FALSE, autolink |-> TRUE,
      tasklist |-> TRUE, superscript |-> TRUE, footnotes |-> TRUE,
      description_lists |-> TRUE, math_dollars |-> TRUE, math_code |-> TRUE,
      unsafe_ |-> TRUE ]

build_options ==
    [ strikethrough |-> TRUE, table |-> TRUE, autolink |-> TRUE,
      tasklist |-> TRUE, superscript |-> TRUE, footnotes |-> TRUE,
      description_lists |-> TRUE, math_dollars |-> TRUE, math_code |-> TRUE,
      unsafe_ |-> TRUE ]

\* the contents of a cell before its initialiser has run
Uninit == [uninit |-> TRUE]

\* a compiled pattern, by its source
Regex(p) == [regex |-> p]

\* what the initialiser of each cell returns
InitValue(c) ==
    CASE c = "PRE_BG_COLOR_RE" -> Regex("<pre style=\"background-color:#[0-9a-fA-F]+;\">")
      [] c = "CHECKED_CHECKBOX_RE" ->
            Regex("<input[^>]*type=\"checkbox\"[^>]*checked[^>]*/?\\s*>")
      [] c = "UNCHECKED_CHECKBOX_RE" -> Regex("<input[^>]*type=\"checkbox\"[^>]*/?\\s*>")
      [] c = "DISPLAY_MATH_RE" -> Regex("<span data-math-style=\"display\">([^<]*)</span>")
      [] c = "INLINE_MATH_RE" -> Regex("<span data-math-style=\"inline\">([^<]*)</span>")
      [] c = "MATH_CODE_RE" ->
            Regex("<pre><code class=\"language-math\" data-math-style=\"display\">([^<]*)</code></pre>")
      [] c = "MERMAID_RE" ->
            Regex("<pre[^>]*><code class=\"language-mermaid\">([\\s\\S]*?)</code></pre>")
      [] c = "SPAN_TAG_RE" -> Regex("</?span[^>]*>")
      [] c = "CODE_BLOCK_RE" -> Regex("(<pre[^>]*><code[^>]*>)([\\s\\S]*?)(</code></pre>)")
      [] c = "BLOCK_TAG_WHITESPACE_RE" -> Regex(">\\s+<")
      [] c = "COMRAK_OPTIONS" -> build_options
      [] c = "SYNTECT_ADAPTER" -> [adapter |-> "syntect"]
      [] c = "FONT_DB" -> [fonts |-> "system"]

(***************************************************************************)
(* main.rs: the command line.                                              *)
(***************************************************************************)

\* Option<T>
None == [some |-> FALSE]
Some(v) == [some |-> TRUE, val |-> v]

\* Err(e) with its message
ErrOf(e) == [ok |-> FALSE, val |-> e]

\* Config::default()
DefaultConfig ==
    [input_file |-> None, edit_mode |-> FALSE, show_help |-> FALSE,
     show_version |-> FALSE]

\* the mutant has lost the arm for unknown options: they count as positional
RECURSIVE ParseArgsLenient(_, _, _, _)
ParseArgsLenient(argv, i, cfg, positional) ==
    IF i > Len(argv)
    THEN IF Len(positional) > 1 THEN ErrOf("too many arguments")
         ELSE Ok([cfg EXCEPT !.input_file =
                     IF positional = <<>> THEN None ELSE Some(positional[1])])
    ELSE LET arg == argv[i]
         IN  IF arg \in {"--help", "-h"}
             THEN ParseArgsLenient(argv, i + 1, [cfg EXCEPT !.show_help = TRUE], positional)
             ELSE IF arg \in {"--version", "-V"}
             THEN ParseArgsLenient(argv, i + 1, [cfg EXCEPT !.show_version = TRUE], positional)
             ELSE IF arg \in {"--edit", "-e"}
             THEN ParseArgsLenient(argv, i + 1, [cfg EXCEPT !.edit_mode = TRUE], positional)
             ELSE ParseArgsLenient(argv, i + 1, cfg, Append(positional, arg))

\* the loop of parse_args from argument i on, and what follows the loop
RECURSIVE ParseArgsFrom(_, _, _, _)
ParseArgsFrom(argv, i, cfg, positional) ==
    IF i > Len(argv)
    THEN IF Len(positional) > 1 THEN ErrOf("too many arguments")
         ELSE Ok([cfg EXCEPT !.input_file =
                     IF positional = <<>> THEN None ELSE Some(positional[1])])
    ELSE LET arg == argv[i]
         IN  IF arg \in {"--help", "-h"}
             THEN ParseArgsFrom(argv, i + 1, [cfg EXCEPT !.show_help = TRUE], positional)
             ELSE IF arg \in {"--version", "-V"}
             THEN ParseArgsFrom(argv, i + 1, [cfg EXCEPT !.show_version = TRUE], positional)
             ELSE IF arg \in {"--edit", "-e"}
             THEN ParseArgsFrom(argv, i + 1, [cfg EXCEPT !.edit_mode = TRUE], positional)
             ELSE IF StartsWith(arg, "-")
             THEN ErrOf("unknown option '" \o arg \o "'")
             ELSE ParseArgsFrom(argv, i + 1, cfg, Append(positional, arg))

parse_args(argv) == ParseArgsFrom(argv, 1, DefaultConfig, <<>>)

\* the words of the command lines main is started with
ArgWords ==
    { "--help", "-h", "--version", "-V", "--edit", "-e", "--foo", "-",
      "readme.md", "notes.md", "" }

\* the longest command line
MaxArgs == 3

ArgLists == UNION {[1..n -> ArgWords] : n \in 0..MaxArgs}

(***************************************************************************)
(* images.rs: the file system and the network inline_images works on, and  *)
(* its helper functions.  A path is a string; what it names is found       *)
(* from its components.                                                    *)
(***************************************************************************)

\* Path::components of the text of a path from position i: the names
\* between slashes, empty names and "." dropped
RECURSIVE ComponentsFrom(_, _)
ComponentsFrom(path, i) ==
    IF i > Len(path) THEN <<>>
    ELSE LET j == Find(path, "/", i)
             e == IF j = 0 THEN Len(path) + 1 ELSE j
             name == SubSeq(path, i, e - 1)
         IN  (IF name \in {"", "."} THEN <<>> ELSE <<name>>)
             \o ComponentsFrom(path, e + 1)

\* Path::is_absolute
IsAbsolute(path) == StartsWith(path, "/")

\* Path::join
PathJoin(base, path) ==
    IF IsAbsolute(path) THEN path
    ELSE IF EndsWith(base, "/") THEN base \o path
    ELSE base \o "/" \o path

\* the directory the process runs in
Cwd == <<"docs">>

\* the directories of the file system
Dirs == { <<>>, <<"docs">>, <<"docs", "sub">>, <<"docs2">>, <<"etc">> }

\* the files of the file system and their bytes
Files ==
    (<<"docs", "img.png">> :> <<137, 80, 78>>)
    @@ (<<"docs", "sub", "pic.jpg">> :> <<255, 216>>)
    @@ (<<"docs2", "x.gif">> :> <<71>>)
    @@ (<<"etc", "secret.png">> :> <<1, 2, 3, 4>>)

\* the markdown files of the file system
TextFiles == { <<"docs", "readme.md">> }

\* the symbolic links of the file system and what they point to
Symlinks == (<<"docs", "link.png">> :> <<"etc", "secret.png">>)

\* the walk of canonicalize: comps are the components still to follow from
\* the resolved path at; every name on the way has to exist
RECURSIVE Resolve(_, _)
Resolve(comps, at) ==
    IF comps = <<>> THEN Some(at)
    ELSE IF at \notin Dirs THEN None
    ELSE IF comps[1] = ".."
    THEN Resolve(Tail(comps), IF at = <<>> THEN at ELSE SubSeq(at, 1, Len(at) - 1))
    ELSE LET to == Append(at, comps[1])
             real == IF to \in DOMAIN Symlinks THEN Symlinks[to] ELSE to
         IN  IF real \in Dirs \cup DOMAIN Files \cup TextFiles
             THEN Resolve(Tail(comps), real)
             ELSE None

\* Path::canonicalize().ok(): the components of the real path, None when
\* the path names nothing
canonicalize(path) ==
    IF path = "" THEN None
    ELSE Resolve(ComponentsFrom(path, 1), IF IsAbsolute(path) THEN <<>> ELSE Cwd)

\* Path::starts_with, component by component
PathStartsWith(a, b) == Len(b) <= Len(a) /\ SubSeq(a, 1, Len(b)) = b

\* the text of the path with components c
RECURSIVE PathString(_)
PathString(c) ==
    IF c = <<>> THEN ""
    ELSE "/" \o c[1] \o PathString(Tail(c))

\* fs::read(path)
fs_read(path) ==
    LET c == canonicalize(path)
    IN  IF c.some /\ c.val \in DOMAIN Files THEN Ok(Files[c.val])
        ELSE Err

\* Path::extension().and_then(to_str): what follows the last dot of the
\* file name, unless the name has no dot but a leading one
Extension(path) ==
    LET c == ComponentsFrom(path, 1)
        name == IF c = <<>> \/ c[Len(c)] = ".." THEN "" ELSE c[Len(c)]
        dots == {i \in 2..Len(name) : At(name, i) = "."}
    IN  IF dots = {} THEN None
        ELSE Some(From(name, (CHOOSE i \in dots : \A k \in dots : k <= i) + 1))

guess_mime_type(path) ==
    LET e == Extension(path)
    IN  IF e = Some("png") THEN "image/png"
        ELSE IF e \in {Some("jpg"), Some("jpeg")} THEN "image/jpeg"
        ELSE IF e = Some("gif") THEN "image/gif"
        ELSE IF e = Some("webp") THEN "image/webp"
        ELSE IF e = Some("svg") THEN "image/svg+xml"
        ELSE IF e = Some("ico") THEN "image/x-icon"
        ELSE IF e = Some("bmp") THEN "image/bmp"
        ELSE "image/png"

Base64Alphabet ==
    "ABCDEFGHIJKLMNOPQRSTUVWXYZabcdefghijklmnopqrstuvwxyz0123456789+/"

\* STANDARD.encode: three bytes to four characters, padded with =
RECURSIVE Base64Encode(_)
Base64Encode(bytes) ==
    LET sym(n) == At(Base64Alphabet, n + 1)
        b1 == bytes[1]
        b2 == bytes[2]
        b3 == bytes[3]
    IN  IF bytes = <<>> THEN ""
        ELSE IF Len(bytes) = 1
        THEN sym(b1 \div 4) \o sym((b1 % 4) * 16) \o "=="
        ELSE IF Len(bytes) = 2
        THEN sym(b1 \div 4) \o sym((b1 % 4) * 16 + b2 \div 16)
             \o sym((b2 % 16) * 4) \o "="
        ELSE sym(b1 \div 4) \o sym((b1 % 4) * 16 + b2 \div 16)
             \o sym((b2 % 16) * 4 + b3 \div 64) \o sym(b3 % 64)
             \o Base64Encode(SubSeq(bytes, 4, Len(bytes)))

\* format!("data:{content_type};base64,{encoded}")
DataUri(content_type, bytes) ==
    "data:" \o content_type \o ";base64," \o Base64Encode(bytes)

\* what the servers of the network answer to a GET: the Content-Type
\* header, if any, and the body; every other request fails
Remote ==
    ("https://example.com/a.jpg" :>
        [content_type |-> Some("image/jpeg"), body |-> <<255, 216, 255>>])
    @@ ("http://example.com/b" :> [content_type |-> None, body |-> <<66, 77>>])

\* the bytes fetch_remote_image takes of a body at most
BodyLimit == 10 * 1024 * 1024

\* images.rs 67-89
fetch_remote_image(url) ==
    IF url \notin DOMAIN Remote THEN None
    ELSE LET response == Remote[url]
             content_type == IF response.content_type.some
                             THEN response.content_type.val ELSE "image/png"
             bytes == IF Len(response.body) > BodyLimit
                      THEN SubSeq(response.body, 1, BodyLimit) ELSE response.body
         IN  Some(DataUri(content_type, bytes))

\* the mutant compares the texts of the two canonical paths, not their
\* components
InsideBaseByText(full, base) ==
    LET canonical_base == canonicalize(base)
        canonical_full == canonicalize(full)
    IN  /\ canonical_base.some
        /\ canonical_full.some
        /\ StartsWith(PathString(canonical_full.val), PathString(canonical_base.val))

\* images.rs 101-107: both paths have a canonical form, and that of full
\* starts with that of base
InsideBase(full, base) ==
    LET canonical_base == canonicalize(base)
        canonical_full == canonicalize(full)
    IN  /\ canonical_base.some
        /\ canonical_full.some
        /\ PathStartsWith(canonical_full.val, canonical_base.val)

\* images.rs 93-111: the path fetch_local_image goes on to read, None when
\* it returns before
FullPath(path, base_path) ==
    IF base_path.some
    THEN LET full == PathJoin(base_path.val, path)
         IN  IF IsAbsolute(path) THEN Some(full)
             ELSE IF InsideBase(full, base_path.val) THEN Some(full)
             ELSE None
    ELSE Some(path)

\* images.rs 92-118
fetch_local_image(path, base_path) ==
    LET full_path == FullPath(path, base_path)
    IN  IF ~full_path.some THEN None
        ELSE LET bytes == fs_read(full_path.val)
             IN  IF ~bytes.ok THEN None
                 ELSE Some(DataUri(guess_mime_type(full_path.val), bytes.val))

\* images.rs 58-64
fetch_and_encode(src, base_path) ==
    IF StartsWith(src, "http://") \/ StartsWith(src, "https://")
    THEN fetch_remote_image(src)
    ELSE fetch_local_image(src, base_path)

\* the paths a call of fetch_and_encode hands to fs::read
ReadsOf(src, base_path) ==
    IF StartsWith(src, "http://") \/ StartsWith(src, "https://") THEN <<>>
    ELSE LET full_path == FullPath(src, base_path)
         IN  IF full_path.some THEN <<full_path.val>> ELSE <<>>

\* IMG_TAG_RE at an "<img" at p: the first group is greedy, so of the
\* whitespace characters followed by src=" before the first > the last one
\* that leaves a match is taken; the value runs to the next quote, the
\* third group to the next >
ImgMatchAt(h, p) ==
    LET gt == Find(h, ">", p + 4)
        lim == IF gt = 0 THEN Len(h) ELSE gt - 1
        fits(k) ==
            /\ At(h, k) \in Whitespace
            /\ StartsWithAt(h, k + 1, "src=\"")
            /\ Find(h, "\"", k + 6) > k + 6
            /\ Find(h, ">", Find(h, "\"", k + 6) + 1) # 0
        ks == {k \in (p + 4)..lim : fits(k)}
    IN  IF ks = {} THEN None
        ELSE LET k == CHOOSE x \in ks : \A y \in ks : y <= x
                 q == Find(h, "\"", k + 6)
                 e == Find(h, ">", q + 1)
             IN  Some([start |-> p - 1, end |-> e,
                       before |-> SubSeq(h, p + 4, k - 1),
                       src |-> SubSeq(h, k + 6, q - 1),
                       after |-> SubSeq(h, q + 1, e - 1)])

\* IMG_TAG_RE.captures_iter(html) from position i on: the matches from left
\* to right, none overlapping another, as (start, end, before, src, after)
\* with the offsets of Rust (from 0, end exclusive)
RECURSIVE ImgMatchesFrom(_, _)
ImgMatchesFrom(h, i) ==
    LET p == Find(h, "<img", i)
    IN  IF p = 0 THEN <<>>
        ELSE LET mt == ImgMatchAt(h, p)
             IN  IF mt.some
                 THEN <<mt.val>> \o ImgMatchesFrom(h, mt.val.end + 1)
                 ELSE ImgMatchesFrom(h, p + 1)

\* String::replace_range(start..end, with)
replace_range(s, start, end, with) ==
    SubSeq(s, 1, start) \o with \o From(s, end + 1)

(***************************************************************************)
(* State.                                                                  *)
(***************************************************************************)
VARIABLES
    pc,        \* where the current call of convert stands
    markdown,  \* its argument
    html,      \* its working text, rebound by every stage
    stderr,    \* the lines written to standard error
    lazy,      \* the Once state of every cell
    cell,      \* the contents of every cell
    inits,     \* how often the initialiser of each cell has run
    ncalls,    \* calls of convert started
    calls,     \* the calls that returned, as [markdown, html]
    tpos,      \* per thread: the next dereference of its call of convert
    running,   \* per thread: the cell whose initialiser it is running
    seen,      \* per thread: the contents it read from each cell
    trace,     \* the stages the current call of convert has run, in order
    mpc,          \* where main stands
    args,         \* main: the command line after the program name
    config,       \* main: the Config parse_args returned
    input,        \* main: its local markdown
    base_path,    \* main: the directory relative images are resolved in
    clipboard,    \* the HTML documents written to the clipboard, in order
    exit_status,  \* the exit status of the process, "running" before
    steps,        \* main: what the run has done so far, in order
    ipc,          \* where the current call of inline_images stands
    img_html,     \* inline_images: its argument html
    img_base,     \* inline_images: its argument base_path
    result,       \* inline_images: its local result
    matches,      \* inline_images: the collected matches
    remaining,    \* inline_images: matches the loop has not visited yet
    cache,        \* inline_images: the pairs of src and data URI
    fetched,      \* the srcs handed to fetch_and_encode, in order
    reads         \* the paths handed to fs::read, in order

callVars   == <<pc, markdown, html, stderr, ncalls, calls, trace>>
threadVars == <<tpos, running, seen>>
mainVars   == <<mpc, args, config, input, base_path, clipboard, exit_status, steps>>
imgVars    == <<ipc, img_html, img_base, result, matches, remaining, cache,
                fetched, reads>>

vars == <<pc, markdown, html, stderr, lazy, cell, inits, ncalls, calls,
          tpos, running, seen, trace, mainVars, imgVars>>

\* the positions of a call of convert: before the call, before each stage,
\* before the return
Positions ==
    { "idle", "comrak", "checkboxes", "math", "mermaid", "pre_bg",
      "code_newlines", "normalize", "done" }

\* calls of convert in one run of the model
MaxCalls == 2

\* threads that call convert at the same time
NThreads == 2

Threads == 1..NThreads

NotRead == [notread |-> TRUE]

Init ==
    /\ pc = "idle"
    /\ markdown = ""
    /\ html = ""
    /\ stderr = <<>>
    /\ lazy = [c \in Statics |-> "incomplete"]
    /\ cell = [c \in Statics |-> Uninit]
    /\ inits = [c \in Statics |-> 0]
    /\ ncalls = 0
    /\ calls = {}
    /\ tpos = [t \in Threads |-> 1]
    /\ running = [t \in Threads |-> "none"]
    /\ seen = [t \in Threads |-> [c \in Statics |-> NotRead]]
    /\ trace = <<>>
    /\ mpc = "start"
    /\ args = <<>>
    /\ config = DefaultConfig
    /\ input = ""
    /\ base_path = None
    /\ clipboard = <<>>
    /\ exit_status = "running"
    /\ steps = <<>>
    /\ ipc = "idle"
    /\ img_html = ""
    /\ img_base = None
    /\ result = ""
    /\ matches = <<>>
    /\ remaining = 0
    /\ cache = {}
    /\ fetched = <<>>
    /\ reads = <<>>

(***************************************************************************)
(* One caller: convert, stage by stage.                                    *)
(***************************************************************************)

\* the calling thread dereferences the cells S: each is initialised on its
\* first use, and read
Force(S) ==
    /\ lazy' = [c \in Statics |-> IF c \in S THEN "complete" ELSE lazy[c]]
    /\ cell' = [c \in Statics |->
                    IF c \in S /\ lazy[c] = "incomplete" THEN InitValue(c)
                    ELSE cell[c]]
    /\ inits' = [c \in Statics |->
                    IF c \in S /\ lazy[c] = "incomplete" THEN inits[c] + 1
                    ELSE inits[c]]

\* a caller calls convert(markdown)
Call(d) ==
    /\ pc = "idle"
    /\ ncalls < MaxCalls
    /\ ncalls' = ncalls + 1
    /\ markdown' = d
    /\ html' = ""
    /\ pc' = "comrak"
    /\ trace' = <<>>
    /\ UNCHANGED <<stderr, lazy, cell, inits, calls, threadVars, mainVars, imgVars>>

\* parser.rs 55-59
StageComrak ==
    /\ pc = "comrak"
    /\ Force({"SYNTECT_ADAPTER", "COMRAK_OPTIONS"})
    /\ html' = markdown_to_html_with_plugins(markdown, cell'["COMRAK_OPTIONS"])
    /\ pc' = "checkboxes"
    /\ trace' = Append(trace, "comrak")
    /\ UNCHANGED <<markdown, stderr, ncalls, calls, threadVars, mainVars, imgVars>>

\* parser.rs 62
StageCheckboxes ==
    /\ pc = "checkboxes"
    /\ html' = convert_checkboxes_to_unicode(html)
    /\ Force({"CHECKED_CHECKBOX_RE", "UNCHECKED_CHECKBOX_RE"})
    /\ pc' = "math"
    /\ trace' = Append(trace, "checkboxes")
    /\ UNCHANGED <<markdown, stderr, ncalls, calls, threadVars, mainVars, imgVars>>

\* the LaTeX sources the three patterns of convert_math_to_svg capture
MathSources(h) ==
    LET r1 == Splice(h, DisplayMathMatches(h), DisplayMathElement)
        r2 == Splice(r1, InlineMathMatches(r1), InlineMathElement)
    IN  {decode_html_entities(DisplayMathMatches(h)[k].cap) :
            k \in 1..Len(DisplayMathMatches(h))}
        \cup {decode_html_entities(InlineMathMatches(r1)[k].cap) :
            k \in 1..Len(InlineMathMatches(r1))}
        \cup {decode_html_entities(Trim(MathCodeMatches(r2)[k].cap)) :
            k \in 1..Len(MathCodeMatches(r2))}

\* the mutant unwraps the result of latex_to_svg: a failure aborts the call
StageMathUnwrap ==
    /\ pc = "math"
    /\ IF \A l \in MathSources(html) : \A b \in BOOLEAN : convert_latex_to_svg(l, b).ok
       THEN /\ html' = convert_math_to_svg(html)
            /\ pc' = "mermaid"
       ELSE /\ html' = html
            /\ pc' = "panicked"
    /\ Force({"DISPLAY_MATH_RE", "INLINE_MATH_RE", "MATH_CODE_RE"})
    /\ trace' = Append(trace, "math")
    /\ UNCHANGED <<markdown, stderr, ncalls, calls, threadVars, mainVars, imgVars>>

\* parser.rs 65; FONT_DB is read when an SVG reaches render_svg_to_png
StageMath ==
    /\ pc = "math"
    /\ html' = convert_math_to_svg(html)
    /\ Force({"DISPLAY_MATH_RE", "INLINE_MATH_RE", "MATH_CODE_RE"}
             \cup (IF \E l \in MathSources(html) :
                         \E b \in BOOLEAN : convert_latex_to_svg(l, b).ok
                   THEN {"FONT_DB"} ELSE {}))
    /\ pc' = "mermaid"
    /\ trace' = Append(trace, "math")
    /\ UNCHANGED <<markdown, stderr, ncalls, calls, threadVars, mainVars, imgVars>>

\* the mutant numbers the error elements by the failures the process has
\* printed so far
StageMermaidNumbered ==
    /\ pc = "mermaid"
    /\ html' = Replace(convert_mermaid_to_png(html), "<pre class=\"mermaid-error\">",
                       "<pre class=\"mermaid-error\" id=\"e"
                       \o FormatU32(Len(stderr)) \o "\">")
    /\ stderr' = stderr \o MermaidErrorLines(html)
    /\ LET ms == MermaidMatches(html, 1)
       IN  Force({"MERMAID_RE"}
                 \cup (IF ms # <<>> THEN {"SPAN_TAG_RE"} ELSE {})
                 \cup (IF \E k \in 1..Len(ms) :
                            mermaid_render(MermaidDefinition(ms[k].cap)).ok
                       THEN {"FONT_DB"} ELSE {}))
    /\ pc' = "pre_bg"
    /\ trace' = Append(trace, "mermaid")
    /\ UNCHANGED <<markdown, ncalls, calls, threadVars, mainVars, imgVars>>

\* parser.rs 69; a failure is printed and replaced by an error element
StageMermaid ==
    /\ pc = "mermaid"
    /\ html' = convert_mermaid_to_png(html)
    /\ stderr' = stderr \o MermaidErrorLines(html)
    /\ LET ms == MermaidMatches(html, 1)
       IN  Force({"MERMAID_RE"}
                 \cup (IF ms # <<>> THEN {"SPAN_TAG_RE"} ELSE {})
                 \cup (IF \E k \in 1..Len(ms) :
                            mermaid_render(MermaidDefinition(ms[k].cap)).ok
                       THEN {"FONT_DB"} ELSE {}))
    /\ pc' = "pre_bg"
    /\ trace' = Append(trace, "mermaid")
    /\ UNCHANGED <<markdown, ncalls, calls, threadVars, mainVars, imgVars>>

\* the mutant goes on to the last stage
StagePreBackgroundThenLast ==
    /\ pc = "pre_bg"
    /\ html' = fix_pre_background_color(html)
    /\ Force({"PRE_BG_COLOR_RE"})
    /\ pc' = "normalize"
    /\ trace' = Append(trace, "pre_bg")
    /\ UNCHANGED <<markdown, stderr, ncalls, calls, threadVars, mainVars, imgVars>>

\* parser.rs 73
StagePreBackground ==
    /\ pc = "pre_bg"
    /\ html' = fix_pre_background_color(html)
    /\ Force({"PRE_BG_COLOR_RE"})
    /\ pc' = "code_newlines"
    /\ trace' = Append(trace, "pre_bg")
    /\ UNCHANGED <<markdown, stderr, ncalls, calls, threadVars, mainVars, imgVars>>

\* parser.rs 76
StageCodeNewlines ==
    /\ pc = "code_newlines"
    /\ html' = convert_code_block_newlines(html)
    /\ Force({"CODE_BLOCK_RE"})
    /\ pc' = "normalize"
    /\ trace' = Append(trace, "code_newlines")
    /\ UNCHANGED <<markdown, stderr, ncalls, calls, threadVars, mainVars, imgVars>>

\* parser.rs 80
StageNormalize ==
    /\ pc = "normalize"
    /\ html' = normalize_whitespace(html)
    /\ Force({"BLOCK_TAG_WHITESPACE_RE"})
    /\ pc' = "done"
    /\ trace' = Append(trace, "normalize")
    /\ UNCHANGED <<markdown, stderr, ncalls, calls, threadVars, mainVars, imgVars>>

\* convert returns html to its caller
Return ==
    /\ pc = "done"
    /\ pc' = "idle"
    /\ UNCHANGED <<markdown, html, stderr, lazy, cell, inits, ncalls, calls, trace,
                   threadVars, mainVars, imgVars>>

\* convert returns html to a caller that keeps what it got
ReturnKept ==
    /\ pc = "done"
    /\ calls' = calls \cup {[markdown |-> markdown, html |-> html]}
    /\ pc' = "idle"
    /\ UNCHANGED <<markdown, html, stderr, lazy, cell, inits, ncalls, trace,
                   threadVars, mainVars, imgVars>>

Stage ==
    \/ StageComrak
    \/ StageCheckboxes
    \/ StageMath
    \/ StageMermaid
    \/ StagePreBackground
    \/ StageCodeNewlines
    \/ StageNormalize

Next ==
    \/ \E d \in Docs : Call(d)
    \/ Stage
    \/ Return

Spec == Init /\ [][Next]_vars

\* repeated calls, every result kept, on the documents that leave a trace
\* in the process (cells initialised, lines on standard error)
RepeatDocs ==
    MathDocs \cup MermaidDocs \cup {"- [ ] todo\n- [x] done", "# Hello"}

RepeatNext ==
    \/ \E d \in RepeatDocs : Call(d)
    \/ Stage
    \/ ReturnKept

RepeatSpec == Init /\ [][RepeatNext]_vars

(***************************************************************************)
(* Several callers at once: what each call of convert does to the cells.   *)
(* A step is one dereference of a static, LazyLock::force or               *)
(* OnceLock::get_or_init: std::sync::Once decides who initialises.         *)
(***************************************************************************)

\* the dereferences of one call of convert, in program order
DerefOrder ==
    << "SYNTECT_ADAPTER", "COMRAK_OPTIONS",
       "CHECKED_CHECKBOX_RE", "UNCHECKED_CHECKBOX_RE",
       "DISPLAY_MATH_RE", "FONT_DB", "INLINE_MATH_RE", "FONT_DB",
       "MATH_CODE_RE", "FONT_DB",
       "MERMAID_RE", "SPAN_TAG_RE", "FONT_DB",
       "PRE_BG_COLOR_RE", "CODE_BLOCK_RE", "BLOCK_TAG_WHITESPACE_RE" >>

\* the dereferences made inside a replace_all closure: only on a match
InClosure(k) == DerefOrder[k] \in {"FONT_DB", "SPAN_TAG_RE"}

\* the mutant tests the cell and initialises it without claiming it
OnceClaimUnlocked(t, c) ==
    /\ lazy[c] = "incomplete"
    /\ running' = [running EXCEPT ![t] = c]
    /\ UNCHANGED <<lazy, cell, inits, tpos, seen>>

\* Once::call: the first thread to find the cell incomplete claims it
\* (compare-and-swap to running) and runs the initialiser
OnceClaim(t, c) ==
    /\ lazy[c] = "incomplete"
    /\ lazy' = [lazy EXCEPT ![c] = "running"]
    /\ running' = [running EXCEPT ![t] = c]
    /\ UNCHANGED <<cell, inits, tpos, seen>>

\* the initialiser returns: its value is stored, the cell is complete
OnceComplete(t) ==
    /\ running[t] # "none"
    /\ cell' = [cell EXCEPT ![running[t]] = InitValue(running[t])]
    /\ inits' = [inits EXCEPT ![running[t]] = @ + 1]
    /\ lazy' = [lazy EXCEPT ![running[t]] = "complete"]
    /\ running' = [running EXCEPT ![t] = "none"]
    /\ UNCHANGED <<tpos, seen>>

\* a complete cell is read; a thread that finds it running waits
OnceRead(t, c) ==
    /\ lazy[c] = "complete"
    /\ seen' = [seen EXCEPT ![t][c] = cell[c]]
    /\ tpos' = [tpos EXCEPT ![t] = @ + 1]
    /\ UNCHANGED <<lazy, cell, inits, running>>

\* thread t dereferences the next static of its call
Deref(t) ==
    /\ tpos[t] <= Len(DerefOrder)
    /\ running[t] = "none"
    /\ \/ OnceClaim(t, DerefOrder[tpos[t]])
       \/ OnceRead(t, DerefOrder[tpos[t]])
    /\ UNCHANGED <<callVars, mainVars, imgVars>>

\* the pattern matched nothing: the closure does not run
SkipClosure(t) ==
    /\ tpos[t] <= Len(DerefOrder)
    /\ running[t] = "none"
    /\ InClosure(tpos[t])
    /\ tpos' = [tpos EXCEPT ![t] = @ + 1]
    /\ UNCHANGED <<lazy, cell, inits, running, seen, callVars, mainVars, imgVars>>

Initialise(t) == OnceComplete(t) /\ UNCHANGED <<callVars, mainVars, imgVars>>

LazyNext ==
    \E t \in Threads :
        \/ Deref(t)
        \/ Initialise(t)
        \/ SkipClosure(t)

LazySpec == Init /\ [][LazyNext]_vars

(***************************************************************************)
(* images.rs: inline_images, one turn of its loop at a time.               *)
(***************************************************************************)

\* the values of src the model puts into img tags
ImgSrcs ==
    { "img.png", "sub/../img.png", "sub/pic.jpg", "../etc/secret.png",
      "link.png", "/etc/secret.png", "missing.png", "../docs2/x.gif",
      "https://example.com/a.jpg", "http://example.com/b",
      "https://example.com/none", "data:image/gif;base64,Rw==" }

\* the documents inline_images is called on
ImgHtmls ==
    { "<p>see <img src=\"" \o x \o "\" alt=\"a\"> here</p>" : x \in ImgSrcs }
    \cup { "<img alt=\"a\"\tsrc=\"" \o x \o "\"> and <img src=\"" \o y \o "\" /> end" :
                x \in {"img.png", "data:image/gif;base64,Rw==", "../etc/secret.png"},
                y \in {"img.png", "data:image/png;base64,iVBO", "sub/pic.jpg"} }
    \cup { "<p>no image: <imgsrc=\"img.png\"> <img src=\"\"></p>" }

\* the directories it is given
ImgBases == { None, Some("/docs"), Some("/docs/sub/..") }

\* the variables inline_images leaves alone
callerVars == <<callVars, lazy, cell, inits, threadVars, mainVars>>

\* images.rs 19-31
InlineEnter(h, b) ==
    /\ ipc = "idle"
    /\ img_html' = h
    /\ img_base' = b
    /\ result' = h
    /\ cache' = {}
    /\ matches' = ImgMatchesFrom(h, 1)
    /\ remaining' = Len(ImgMatchesFrom(h, 1))
    /\ ipc' = "loop"
    /\ UNCHANGED <<fetched, reads>>

\* a caller calls inline_images(h, b)
InlineCall(h, b) == InlineEnter(h, b) /\ UNCHANGED callerVars

\* the mutant walks the matches from the first to the last
NextMatchForward == matches[Len(matches) - remaining + 1]

\* images.rs 34: matches.into_iter().rev()
NextMatch == matches[remaining]

\* the mutant takes no src for a data URI
IsDataUriNever(src) == FALSE /\ StartsWith(src, "data:")

\* images.rs 36
IsDataUri(src) == StartsWith(src, "data:")

\* Option::unwrap_or_else
UnwrapOr(opt, default) == IF opt.some THEN opt.val ELSE default

\* images.rs 41: cache.get(&src)
CacheGet(src) ==
    LET cached == {c \in cache : c.src = src}
    IN  IF cached = {} THEN None ELSE Some((CHOOSE c \in cached : TRUE).uri)

\* images.rs 41-47: the cached URI, else the fetched one, else src itself
DataUriOf(src, hit) ==
    IF hit.some THEN hit.val
    ELSE UnwrapOr(fetch_and_encode(src, img_base), src)

\* images.rs 49
Replacement(mt, data_uri) ==
    "<img" \o mt.before \o " src=\"" \o data_uri \o "\"" \o mt.after \o ">"

\* images.rs 35-51: the body of the loop for the match mt, hit being what
\* the cache holds for its src
InlineTurn(mt, hit, data_uri) ==
    IF IsDataUri(mt.src)
    THEN UNCHANGED <<result, cache, fetched, reads>>
    ELSE /\ result' = replace_range(result, mt.start, mt.end,
                                    Replacement(mt, data_uri))
         /\ cache' = cache \cup {[src |-> mt.src, uri |-> data_uri]}
         /\ fetched' = IF hit.some THEN fetched ELSE Append(fetched, mt.src)
         /\ reads' = IF hit.some THEN reads
                     ELSE reads \o ReadsOf(mt.src, img_base)

\* images.rs 34-52: one turn of the loop
InlineVisit ==
    /\ ipc = "loop"
    /\ remaining > 0
    /\ InlineTurn(NextMatch, CacheGet(NextMatch.src),
                  DataUriOf(NextMatch.src, CacheGet(NextMatch.src)))
    /\ remaining' = remaining - 1
    /\ UNCHANGED <<ipc, img_html, img_base, matches, callerVars>>

\* images.rs 54
InlineReturn ==
    /\ ipc = "loop"
    /\ remaining = 0
    /\ ipc' = "returned"
    /\ UNCHANGED <<img_html, img_base, result, matches, remaining, cache,
                   fetched, reads, callerVars>>

ImageNext ==
    \/ \E h \in ImgHtmls, b \in ImgBases : InlineCall(h, b)
    \/ InlineVisit
    \/ InlineReturn

ImageSpec == Init /\ [][ImageNext]_vars

(***************************************************************************)
(* main.rs: one run of the program.                                        *)
(***************************************************************************)

\* env!("GIT_VERSION"), fixed when the program is built
VERSION == "{GIT_VERSION}"

REPO_URL == "https://github.com/letientai299/md2cb"

\* what print_help writes
HelpText ==
    "md2cb - Convert Markdown to rich HTML clipboard content\n\nUSAGE:\n"
    \o "    md2cb [OPTIONS] [FILE/STDIN]\n    cat file.md | md2cb\n\nOPTIONS:\n"
    \o "    -e, --edit       Open $EDITOR to edit before converting\n"
    \o "    -h, --help       Print this help message\n"
    \o "    -V, --version    Print version information\n\n" \o REPO_URL

\* what print_version writes
VersionText == "md2cb " \o VERSION \o "\n" \o REPO_URL

\* the variables main leaves alone until it calls convert and inline_images
calleeVars == <<pc, markdown, html, ncalls, calls, trace, lazy, cell, inits,
                threadVars, imgVars>>

\* std::process::exit(1)
Exit1 ==
    /\ mpc' = "exited"
    /\ exit_status' = "1"

\* main returns
Exit0 ==
    /\ mpc' = "exited"
    /\ exit_status' = "0"

\* main.rs 188: the process is started with the command line a
MainStart(a) ==
    /\ mpc = "start"
    /\ args' = a
    /\ mpc' = "parse_args"
    /\ UNCHANGED <<config, input, base_path, clipboard, exit_status, steps,
                   stderr, calleeVars>>

\* main.rs 190-198
MainParseArgs ==
    /\ mpc = "parse_args"
    /\ LET r == parse_args(args)
       IN  IF r.ok
           THEN /\ config' = r.val
                /\ mpc' = "help"
                /\ UNCHANGED <<stderr, exit_status>>
           ELSE /\ stderr' = stderr \o << "error: " \o r.val,
                                          "Usage: md2cb [OPTIONS] [FILE]",
                                          "Try 'md2cb --help' for more information." >>
                /\ Exit1
                /\ UNCHANGED config
    /\ steps' = Append(steps, "parse_args")
    /\ UNCHANGED <<args, input, base_path, clipboard, calleeVars>>

\* main.rs 201-204
MainHelp ==
    /\ mpc = "help"
    /\ IF config.show_help
       THEN /\ stderr' = Append(stderr, HelpText)
            /\ steps' = Append(steps, "print_help")
            /\ Exit0
       ELSE /\ mpc' = "version"
            /\ UNCHANGED <<stderr, steps, exit_status>>
    /\ UNCHANGED <<args, config, input, base_path, clipboard, calleeVars>>

\* main.rs 207-210
MainVersion ==
    /\ mpc = "version"
    /\ IF config.show_version
       THEN /\ stderr' = Append(stderr, VersionText)
            /\ steps' = Append(steps, "print_version")
            /\ Exit0
       ELSE /\ mpc' = "read"
            /\ UNCHANGED <<stderr, steps, exit_status>>
    /\ UNCHANGED <<args, config, input, base_path, clipboard, calleeVars>>

\* the markdown texts a run meets: in the file, on standard input, as left
\* by the editor
MainDocs ==
    { "# Hello", "see <img src=\"img.png\" alt=\"p\"> here", "- [x] done" }

\* Path::canonicalize().ok().and_then(parent) of the input file
ParentOf(file_path) ==
    LET c == canonicalize(file_path)
    IN  IF ~c.some \/ c.val = <<>> THEN None
        ELSE IF Len(c.val) = 1 THEN Some("/")
        ELSE Some(PathString(SubSeq(c.val, 1, Len(c.val) - 1)))

\* fs::read_to_string(path) succeeds
IsReadableText(path) ==
    canonicalize(path).some /\ canonicalize(path).val \in TextFiles

\* main.rs 216-237: the file is read, or standard input is, or in edit
\* mode at a terminal nothing is ("terminal" in steps); text is what the file or standard input
\* holds, tty what stdin_is_terminal returns, utf8 whether standard input
\* can be read as a string
MainRead(text, tty, utf8) ==
    /\ mpc = "read"
    /\ IF config.input_file.some
       THEN IF IsReadableText(config.input_file.val)
            THEN /\ input' = text
                 /\ base_path' = ParentOf(config.input_file.val)
                 /\ mpc' = "edit"
                 /\ steps' = Append(steps, "read_file")
                 /\ UNCHANGED <<stderr, exit_status>>
            ELSE /\ stderr' = Append(stderr, "error: cannot read '"
                                             \o config.input_file.val \o "'")
                 /\ steps' = Append(steps, "read_file")
                 /\ Exit1
                 /\ UNCHANGED <<input, base_path>>
       ELSE IF config.edit_mode /\ tty
       THEN /\ mpc' = "edit"
            /\ steps' = Append(steps, "terminal")
            /\ UNCHANGED <<input, base_path, stderr, exit_status>>
       ELSE IF utf8
       THEN /\ input' = text
            /\ mpc' = "edit"
            /\ steps' = Append(steps, "read_stdin")
            /\ UNCHANGED <<base_path, stderr, exit_status>>
       ELSE /\ stderr' = Append(stderr, "Failed to read from stdin")
            /\ steps' = Append(steps, "read_stdin")
            /\ mpc' = "exited"
            /\ exit_status' = "101"
            /\ UNCHANGED <<input, base_path>>
    /\ UNCHANGED <<args, config, clipboard, calleeVars>>

\* what the editor and the temporary file may do in a run
EditorRuns ==
    { [temp |-> FALSE, started |-> FALSE, status |-> 0, text |-> ""],
      [temp |-> TRUE, started |-> FALSE, status |-> 0, text |-> ""],
      [temp |-> TRUE, started |-> TRUE, status |-> 1, text |-> ""] }
    \cup { [temp |-> TRUE, started |-> TRUE, status |-> 0, text |-> d] : d \in MainDocs }

\* main.rs 57-87
edit_in_editor(initial_content, run) ==
    IF ~run.temp THEN ErrOf("Failed to create temp file")
    ELSE IF ~run.started THEN ErrOf("Failed to open editor")
    ELSE IF run.status # 0
    THEN ErrOf("Editor exited with status: exit status: " \o FormatU32(run.status))
    ELSE Ok(run.text)

\* the mutant prints the error of the editor and goes on
MainEditThenGoOn(run) ==
    /\ mpc = "edit"
    /\ IF config.edit_mode
       THEN LET r == edit_in_editor(input, run)
            IN  /\ steps' = Append(steps, "edit_in_editor")
                /\ mpc' = "convert"
                /\ input' = IF r.ok THEN r.val ELSE input
                /\ stderr' = IF r.ok THEN stderr ELSE Append(stderr, "Error: " \o r.val)
                /\ UNCHANGED exit_status
       ELSE /\ mpc' = "convert"
            /\ UNCHANGED <<input, stderr, steps, exit_status>>
    /\ UNCHANGED <<args, config, base_path, clipboard, calleeVars>>

\* main.rs 240-248
MainEdit(run) ==
    /\ mpc = "edit"
    /\ IF config.edit_mode
       THEN LET r == edit_in_editor(input, run)
            IN  /\ steps' = Append(steps, "edit_in_editor")
                /\ IF r.ok
                   THEN /\ input' = r.val
                        /\ mpc' = "convert"
                        /\ UNCHANGED <<stderr, exit_status>>
                   ELSE /\ stderr' = Append(stderr, "Error: " \o r.val)
                        /\ Exit1
                        /\ UNCHANGED input
       ELSE /\ mpc' = "convert"
            /\ UNCHANGED <<input, stderr, steps, exit_status>>
    /\ UNCHANGED <<args, config, base_path, clipboard, calleeVars>>

\* main.rs 251: convert is called on the markdown
MainConvert ==
    /\ mpc = "convert"
    /\ pc = "idle"
    /\ ncalls' = ncalls + 1
    /\ markdown' = input
    /\ html' = ""
    /\ pc' = "comrak"
    /\ trace' = <<>>
    /\ mpc' = "converting"
    /\ steps' = Append(steps, "convert")
    /\ UNCHANGED <<args, config, input, base_path, clipboard, exit_status,
                   stderr, calls, lazy, cell, inits, threadVars, imgVars>>

\* main.rs 251-255: convert returns and inline_images is called on its result
MainInline ==
    /\ mpc = "converting"
    /\ pc = "done"
    /\ pc' = "idle"
    /\ InlineEnter(html, base_path)
    /\ mpc' = "inlining"
    /\ steps' = Append(steps, "inline_images")
    /\ UNCHANGED <<args, config, input, base_path, clipboard, exit_status,
                   stderr, markdown, html, ncalls, calls, trace, lazy, cell,
                   inits, threadVars>>

\* include_str!("../assets/github-markdown.css"), fixed when the program is
\* built
markdown_css == "{github-markdown.css}"

\* main.rs 258-268
FullHtml(h) ==
    "<!DOCTYPE html>\n<html>\n<head>\n<meta charset=\"utf-8\">\n<style>"
    \o markdown_css \o "</style>\n</head>\n<body class=\"markdown-body\">"
    \o h \o "</body>\n</html>"

\* main.rs 255-277: inline_images has returned, the document is built and
\* copied; ok is whether clipboard::copy_html succeeds
MainCopy(ok) ==
    /\ mpc = "inlining"
    /\ ipc = "returned"
    /\ steps' = Append(steps, "copy_html")
    /\ IF ok
       THEN /\ clipboard' = Append(clipboard, FullHtml(result))
            /\ stderr' = Append(stderr, "Copied to clipboard")
            /\ Exit0
       ELSE /\ stderr' = Append(stderr, "Error copying to clipboard")
            /\ Exit1
            /\ UNCHANGED clipboard
    /\ UNCHANGED <<args, config, input, base_path, calleeVars>>

MainNext ==
    \/ \E a \in ArgLists : MainStart(a)
    \/ MainParseArgs
    \/ MainHelp
    \/ MainVersion
    \/ \E text \in MainDocs, tty \in BOOLEAN, utf8 \in BOOLEAN : MainRead(text, tty, utf8)
    \/ \E run \in EditorRuns : MainEdit(run)
    \/ MainConvert
    \/ Stage
    \/ MainInline
    \/ InlineVisit
    \/ InlineReturn
    \/ \E ok \in BOOLEAN : MainCopy(ok)

MainSpec == Init /\ [][MainNext]_vars

(***************************************************************************)
(* The claims.                                                             *)
(***************************************************************************)

\* the position that follows p in a call of convert; the return follows the
\* last stage
Following(p) ==
    CASE p = "idle" -> "comrak"
      [] p = "comrak" -> "checkboxes"
      [] p = "checkboxes" -> "math"
      [] p = "math" -> "mermaid"
      [] p = "mermaid" -> "pre_bg"
      [] p = "pre_bg" -> "code_newlines"
      [] p = "code_newlines" -> "normalize"
      [] p = "normalize" -> "done"
      [] p = "done" -> "idle"
      [] OTHER -> "none"

\* C1: convert is total: every step of a call, whatever the input, takes the
\* call to its next stage and from the last stage back to the caller with
\* the HTML; no step rejects the input, returns an error or aborts, also
\* when a math expression or a Mermaid diagram of the input fails to
\* render.
ConvertIsTotal ==
    [][/\ pc \in Positions
       /\ pc' = Following(pc)
       /\ (pc # "idle" => markdown' = markdown)]_callVars

\* a call is about to return a document whose formula and whose diagram
\* both failed to render
ConvertReturnsDespiteFailures ==
    /\ pc = "done"
    /\ Contains(html, "math-error")
    /\ Contains(html, "<pre class=\"mermaid-error\">")
    /\ stderr # <<>>

\* C2 as stated: the task list renders with the ballot boxes U+2610 and
\* U+2611 and without checkbox input markup.
TaskListBallotBoxes ==
    (pc = "done" /\ markdown = TaskListDoc) =>
        /\ Contains(html, BALLOT_BOX \o "  todo")
        /\ Contains(html, BALLOT_BOX_WITH_CHECK \o "  done")
        /\ ~Contains(html, TypeCheckbox)

\* C2 as amended: the task list renders with the white large square U+2B1C
\* for the unchecked item and the white heavy check mark U+2705 for the
\* checked item, and without checkbox input markup.
TaskListSquares ==
    (pc = "done" /\ markdown = TaskListDoc) =>
        /\ Contains(html, "<li>" \o WHITE_LARGE_SQUARE \o "  todo</li>")
        /\ Contains(html, "<li>" \o WHITE_HEAVY_CHECK_MARK \o "  done</li>")
        /\ ~Contains(html, TypeCheckbox)

\* the task list has been rendered
TaskListRendered ==
    /\ pc = "done"
    /\ markdown = TaskListDoc
    /\ Contains(html, WHITE_LARGE_SQUARE)
    /\ Contains(html, WHITE_HEAVY_CHECK_MARK)

\* the header element of level k with the text t
Header(k, t) == "<h" \o FormatU32(k) \o ">" \o t \o "</h" \o FormatU32(k) \o ">"

\* C3 as stated: for every k in 1..6 and every text T, k "#", a space and T
\* render to <h{k}>T</h{k}>, and k "#" not followed by a space give no
\* header.
HeaderForEveryText ==
    pc = "done" =>
        \A k \in Levels :
            /\ \A t \in PlainTexts \cup ClosedTexts :
                   markdown = Hashes(k) \o " " \o t => Contains(html, Header(k, t))
            /\ \A t \in {"Hello", ""} :
                   markdown = Hashes(k) \o t => ~Contains(html, "<h")

\* C3 as amended: for every k in 1..6 and every text T of letters, digits
\* and single inner spaces, k "#", a space and T render to <h{k}>T</h{k}>,
\* and k "#" followed directly by a letter give no header: the line is a
\* paragraph.
HeaderForPlainText ==
    pc = "done" =>
        \A k \in Levels :
            /\ \A t \in PlainTexts :
                   markdown = Hashes(k) \o " " \o t => Contains(html, Header(k, t))
            /\ markdown = Hashes(k) \o "Hello" =>
                   /\ ~Contains(html, "<h")
                   /\ Contains(html, "<p>" \o markdown \o "</p>")

\* a header of the deepest level has been rendered
HeaderRendered ==
    /\ pc = "done"
    /\ markdown = "###### a b"
    /\ Contains(html, "<h6>a b</h6>")

\* the opening tag of the header cell of h whose content is text
HeaderCell(h, text) ==
    LET e == Find(h, ">" \o text \o "</th>", 1)
        starts == {j \in 1..e : StartsWithAt(h, j, "<th")}
    IN  IF e = 0 \/ starts = {} THEN ""
        ELSE SubSeq(h, CHOOSE j \in starts : \A m \in starts : m <= j, e)

\* C4 as stated: under the separator row |:--|--:| the header cell of
\* column 2 carries style="text-align:right" and the header cell of column 1
\* carries no style attribute.
HeaderCellStyle ==
    (pc = "done" /\ markdown = TableOf(":--", "--:")) =>
        /\ Contains(HeaderCell(html, "B"), "style=\"text-align:right\"")
        /\ HeaderCell(html, "A") # ""
        /\ ~Contains(HeaderCell(html, "A"), "style")

\* C4 as amended: under the separator row |:--|--:| the header cell of
\* column 2 carries align="right", the header cell of column 1 carries
\* align="left", and neither carries a style attribute.
HeaderCellAlign ==
    (pc = "done" /\ markdown = TableOf(":--", "--:")) =>
        /\ HeaderCell(html, "B") = "<th align=\"right\">"
        /\ HeaderCell(html, "A") = "<th align=\"left\">"

\* the table has been rendered
TableRendered ==
    /\ pc = "done"
    /\ markdown = TableOf(":--", "--:")
    /\ Contains(html, "<table><thead><tr><th")

\* C5: a document with the reference link [text][ref] and the definition
\* line [ref]: https://example.com renders with
\* <a href="https://example.com">text</a>, and the definition line is not in
\* the output.
ReferenceLinkResolved ==
    (pc = "done" /\ markdown \in {RefDocAfter, RefDocBefore}) =>
        /\ Contains(html, "<a href=\"" \o Url \o "\">text</a>")
        /\ ~Contains(html, "[ref]")
        /\ Count(html, Url) = 1

\* a link has been resolved against a definition that follows it
ReferenceLinkRendered ==
    /\ pc = "done"
    /\ markdown = RefDocAfter
    /\ Contains(html, "</a>")

\* C6: when a key is defined more than once, every link that uses the key
\* resolves to the destination of the earliest definition; the later
\* definitions take no effect, are not rendered, and the call returns.
EarliestDefinitionWins ==
    pc = "done" =>
        /\ markdown = RefDocTwice =>
               /\ Contains(html, "<a href=\"" \o Url \o "\">text</a>")
               /\ ~Contains(html, UrlB)
               /\ ~Contains(html, "[ref]")
        /\ markdown = RefDocAround =>
               /\ Contains(html, "<a href=\"" \o UrlB \o "\">text</a>")
               /\ Contains(html, "<a href=\"" \o UrlB \o "\">more</a>")
               /\ ~Contains(html, Url)
               /\ ~Contains(html, "[Ref]")

\* two links have been resolved in a document that defines their key before
\* and after them
DuplicateDefinitionRendered ==
    /\ pc = "done"
    /\ markdown = RefDocAround
    /\ Count(html, "<a href=") = 2

\* C7: "**bold** and *italic*" renders with <strong>bold</strong> and
\* <em>italic</em>, two elements side by side, neither inside the other;
\* **x** and __x__ give <strong>, *x* and _x_ give <em>.
StrongAndEmphasis ==
    pc = "done" =>
        /\ markdown = "**bold** and *italic*" =>
               /\ Contains(html, "<strong>bold</strong> and <em>italic</em>")
               /\ Count(html, "<strong>") = 1
               /\ Count(html, "<em>") = 1
        /\ markdown \in {"**x**", "__x__"} =>
               Contains(html, "<strong>x</strong>") /\ ~Contains(html, "<em>")
        /\ markdown \in {"*x*", "_x_"} =>
               Contains(html, "<em>x</em>") /\ ~Contains(html, "<strong>")

\* the underscore form of strong emphasis has been rendered
UnderscoreStrongRendered ==
    /\ pc = "done"
    /\ markdown = "__x__"
    /\ Contains(html, "<strong>")

CellsInitialisedOnce ==
    \A c \in Statics :
        /\ inits[c] <= 1
        /\ Cardinality({t \in Threads : running[t] = c}) <= 1
        /\ (lazy[c] = "complete" => inits[c] = 1 /\ cell[c] = InitValue(c))
        /\ (lazy[c] # "complete" => inits[c] = 0 /\ cell[c] = Uninit)
        /\ \A t \in Threads : seen[t][c] \in {NotRead, InitValue(c)}

\* the calls of all threads have run side by side to their ends, and every
\* thread has read every cell
EveryThreadReadEveryCell ==
    /\ \A t \in Threads : tpos[t] > Len(DerefOrder)
    /\ \A t \in Threads : \A c \in Statics : seen[t][c] = InitValue(c)
    /\ \A c \in Statics : inits[c] = 1

\* C10 as stated: the nested list is emitted after the parent item's </li>,
\* as a sibling of the parent item.
NestedListIsSibling ==
    (pc = "done" /\ markdown = NestedListDoc) =>
        /\ Contains(html, "<li>parent</li>")
        /\ ~Contains(html, "</ul></li>")

\* C10 as amended: the nested list is emitted inside the parent item, after
\* the parent's text and before its </li>: it is a child of the parent <li>.
NestedListIsChild ==
    pc = "done" =>
        /\ markdown = NestedListDoc =>
               /\ Contains(html,
                    "<li>parent <ul><li>child1</li><li>child2</li></ul></li>")
               /\ ~Contains(html, "</li><ul>")
        /\ markdown = DeepListDoc =>
               /\ Contains(html,
                    "<li>a <ul><li>b <ul><li>c</li></ul></li></ul></li><li>d</li>")
               /\ ~Contains(html, "</li><ul>")

\* a list nested two levels deep has been rendered
NestedListRendered ==
    /\ pc = "done"
    /\ markdown = DeepListDoc
    /\ Count(html, "<ul>") = 3

(***************************************************************************)
(* C11.  parse_args fails with "unknown option" when some argument starts  *)
(* with - and is none of --help, -h, --version, -V, --edit, -e; otherwise  *)
(* it fails with "too many arguments" when more than one argument is       *)
(* positional; otherwise it succeeds, each flag true exactly when one of   *)
(* its spellings is among the arguments, input_file the one positional     *)
(* argument or None.                                                       *)
(***************************************************************************)
FlagWords == {"--help", "-h", "--version", "-V", "--edit", "-e"}

HasUnknownOption(a) ==
    \E i \in 1..Len(a) : StartsWith(a[i], "-") /\ a[i] \notin FlagWords

PositionalArgs(a) == {i \in 1..Len(a) : ~StartsWith(a[i], "-")}

HasWord(a, W) == \E i \in 1..Len(a) : a[i] \in W

\* C11: once parse_args has run, the run stands as the claim says: failed
\* with "unknown option", else failed with "too many arguments", else the
\* Config holds the flags given and the one positional argument
ParseArgsOutcome ==
    mpc \notin {"start", "parse_args"} =>
        IF HasUnknownOption(args)
        THEN /\ exit_status = "1"
             /\ Contains(stderr[1], "unknown option")
        ELSE IF Cardinality(PositionalArgs(args)) > 1
        THEN /\ exit_status = "1"
             /\ Contains(stderr[1], "too many arguments")
        ELSE /\ steps[1] = "parse_args"
             /\ config.show_help = HasWord(args, {"--help", "-h"})
             /\ config.show_version = HasWord(args, {"--version", "-V"})
             /\ config.edit_mode = HasWord(args, {"--edit", "-e"})
             /\ config.input_file =
                    IF PositionalArgs(args) = {} THEN None
                    ELSE Some(args[CHOOSE i \in PositionalArgs(args) : TRUE])
             /\ ~(exit_status = "1" /\ steps = <<"parse_args">>)

\* two file names and then an unknown option: the option is what is reported
UnknownOptionReported ==
    /\ args = <<"readme.md", "notes.md", "--foo">>
    /\ mpc = "exited"
    /\ exit_status = "1"
    /\ stderr[1] = "error: unknown option '--foo'"

(***************************************************************************)
(* C12.  inline_images leaves every img tag whose src starts with data:    *)
(* as it is and fetches nothing for it; on a document whose images all     *)
(* have data URIs the result is the document itself.                       *)
(***************************************************************************)
DataUriMatches == {k \in 1..Len(matches) : StartsWith(matches[k].src, "data:")}

\* C12: a turn of the loop on a data URI changes nothing; the tag of a data
\* URI stays in the result and its src is never fetched; a document of
\* data URIs alone is returned as it came, nothing fetched, nothing read
DataUrisLeftAlone ==
    [][/\ (ipc = "loop" /\ remaining > 0
            /\ StartsWith(matches[remaining].src, "data:"))
          => UNCHANGED <<result, cache, fetched, reads>>
       /\ \A k \in DataUriMatches' :
             /\ Contains(result', SubSeq(img_html', matches'[k].start + 1,
                                         matches'[k].end))
             /\ \A i \in 1..Len(fetched') : fetched'[i] # matches'[k].src
       /\ (ipc' = "returned" /\ DataUriMatches' = 1..Len(matches'))
          => /\ result' = img_html'
             /\ fetched' = <<>>
             /\ reads' = <<>>]_vars

\* an image with a data URI is kept beside one that is inlined
DataUriKeptBesideInlined ==
    /\ ipc = "returned"
    /\ img_base = Some("/docs")
    /\ fetched = <<"img.png">>
    /\ result = "<img alt=\"a\"\tsrc=\"data:image/gif;base64,Rw==\"> and "
                \o "<img src=\"data:image/png;base64,iVBO\" /> end"

(***************************************************************************)
(* C13.  Given a base path, fetch_local_image reads no file for a relative *)
(* src whose canonical path lies outside the canonical base path: it       *)
(* returns None and the image keeps its src.  An absolute src is read and  *)
(* inlined whatever the base path is.                                      *)
(***************************************************************************)
IsLocal(src) ==
    /\ ~StartsWith(src, "http://")
    /\ ~StartsWith(src, "https://")
    /\ ~StartsWith(src, "data:")

\* the real path of src taken from base exists and is not below the real
\* path of base
OutsideBase(src, base) ==
    LET real == canonicalize(base \o "/" \o src)
        root == canonicalize(base)
    IN  /\ real.some
        /\ root.some
        /\ \E i \in 1..Len(root.val) : i > Len(real.val) \/ real.val[i] # root.val[i]

WasRead(path) == \E i \in 1..Len(reads) : reads[i] = path

\* C13: for every image visited, a relative src that leads out of the base
\* path was not read and is still the src of the image; an absolute src
\* that names a file was read and the image holds its data URI
TraversalRefused ==
    ipc \in {"loop", "returned"} =>
        \A k \in (remaining + 1)..Len(matches) :
            LET src == matches[k].src
            IN  /\ (img_base.some /\ IsLocal(src) /\ ~StartsWith(src, "/")
                        /\ OutsideBase(src, img_base.val))
                   => /\ ~WasRead(img_base.val \o "/" \o src)
                      /\ ~WasRead(src)
                      /\ [src |-> src, uri |-> src] \in cache
                      /\ Contains(result, " src=\"" \o src \o "\"")
                /\ (StartsWith(src, "/") /\ fs_read(src).ok)
                   => /\ WasRead(src)
                      /\ Contains(result, " src=\"data:" \o guess_mime_type(src)
                                          \o ";base64,"
                                          \o Base64Encode(fs_read(src).val) \o "\"")

\* an image in a sibling directory whose name starts like the base is refused
SiblingDirectoryRefused ==
    /\ ipc = "returned"
    /\ img_base = Some("/docs")
    /\ fetched = <<"../docs2/x.gif">>
    /\ reads = <<>>
    /\ result = img_html

(***************************************************************************)
(* C14.  In the output of convert no newline is left inside a              *)
(* <pre ...><code ...>...</code></pre> block, each has become <br>, and    *)
(* no <br> stands immediately before the closing </span></code> of a       *)
(* fenced code block.                                                      *)
(***************************************************************************)
\* where the code blocks of h start
CodeBlockStarts(h) ==
    {i \in 1..Len(h) :
        /\ StartsWithAt(h, i, "<pre")
        /\ Find(h, ">", i) # 0
        /\ StartsWithAt(h, Find(h, ">", i) + 1, "<code")
        /\ Find(h, "</code></pre>", i) # 0}

\* the code block of h that starts at i, without its closing tags
CodeBlockAt(h, i) == SubSeq(h, i, Find(h, "</code></pre>", i) - 1)

\* C14: the code-block stage writes one <br> for each newline it takes
\* out, but for the last one of a block; after it no code block holds a
\* newline, and the output has no <br> before </span></code>
CodeNewlinesAreBr ==
    [][/\ pc = "code_newlines" =>
             Count(html', "<br>") - Count(html, "<br>")
               + Cardinality({i \in CodeBlockStarts(html) :
                                 EndsWith(CodeBlockAt(html, i), "\n</span>")})
             = Count(html, "\n") - Count(html', "\n")
       /\ pc' \in {"normalize", "done"} =>
             \A i \in CodeBlockStarts(html') : ~Contains(CodeBlockAt(html', i), "\n")
       /\ pc' = "done" => ~Contains(html', "<br></span></code>")]_vars

\* a fenced block of two lines and a blank one after each is rendered
CodeBlockRendered ==
    /\ pc = "done"
    /\ markdown = "~~~text\na\n\nb\n\n~~~"
    /\ Contains(html, ">a<br></span>")
    /\ Contains(html, ">b<br></span>")
    /\ Contains(html, "\"></span></code></pre>")

(***************************************************************************)
(* C15.  normalize_whitespace removes every run of whitespace that stands  *)
(* between a > and the < after it, turns every newline that is left into   *)
(* one space and changes no other character: its result has no newline,    *)
(* and list items and paragraphs stand side by side.                       *)
(***************************************************************************)
\* position j of h is in a run of whitespace with > before it and < after it
InTagGap(h, j) ==
    LET before == {a \in 1..(j - 1) : At(h, a) \notin Whitespace}
        after == {b \in (j + 1)..Len(h) : At(h, b) \notin Whitespace}
    IN  /\ At(h, j) \in Whitespace
        /\ before # {}
        /\ after # {}
        /\ At(h, CHOOSE a \in before : \A x \in before : x <= a) = ">"
        /\ At(h, CHOOSE b \in after : \A x \in after : b <= x) = "<"

\* the characters a..b of h, one by one as the claim has them
RECURSIVE NormalizedRange(_, _, _)
NormalizedRange(h, a, b) ==
    IF a > b THEN ""
    ELSE IF a = b
    THEN (IF InTagGap(h, a) THEN ""
          ELSE IF At(h, a) = "\n" THEN " "
          ELSE At(h, a))
    ELSE NormalizedRange(h, a, (a + b) \div 2)
         \o NormalizedRange(h, (a + b) \div 2 + 1, b)

\* C15: the result of the stage is its input with the whitespace of every
\* gap between tags dropped and every other newline turned into a space;
\* it has no newline and no gap between tags
WhitespaceNormalized ==
    [][pc = "normalize" =>
          /\ html' = NormalizedRange(html, 1, Len(html))
          /\ ~Contains(html', "\n")
          /\ \A j \in 1..Len(html') : ~InTagGap(html', j)
          /\ ~Contains(html', "</li> <li>")
          /\ ~Contains(html', "</p> <p>")]_vars

\* a paragraph of two lines and a list of two items are rendered
TextAndListNormalized ==
    /\ pc = "done"
    /\ markdown = "First line\nsecond line.\n\n- one\n- two"
    /\ Contains(html, "<p>First line second line.</p><ul>")
    /\ Contains(html, "<li>one</li><li>two</li>")

(***************************************************************************)
(* C16.  A call of convert runs each stage once, in the order markdown     *)
(* rendering, checkboxes, math, Mermaid, pre background, code-block        *)
(* newlines, whitespace normalisation: Mermaid comes before the            *)
(* background fix, and the code-block newlines are converted before        *)
(* whitespace is normalised, so that no newline of a code block becomes a  *)
(* space.                                                                  *)
(***************************************************************************)
StageOrder ==
    << "comrak", "checkboxes", "math", "mermaid", "pre_bg", "code_newlines",
       "normalize" >>

\* C16: every step of a call runs the next stage of StageOrder, the call
\* ends after all seven, and normalisation finds no newline in a code
\* block and leaves every <br>
StagesInOrder ==
    [][/\ pc \notin {"idle", "done"} =>
             /\ Len(trace) < Len(StageOrder)
             /\ trace' = Append(trace, StageOrder[Len(trace) + 1])
       /\ pc' = "done" => trace' = StageOrder
       /\ pc = "normalize" =>
             /\ \A i \in CodeBlockStarts(html) : ~Contains(CodeBlockAt(html, i), "\n")
             /\ Count(html', "<br>") = Count(html, "<br>")
             /\ Count(html', " ") - Count(html, " ") <= Count(html, "\n")]_vars

\* a call on a code block has run all stages and kept the line break
CodeLineBreakKept ==
    /\ pc = "done"
    /\ markdown = "~~~text\nline one\nline two\n~~~"
    /\ trace = StageOrder
    /\ Contains(html, "line one<br>")
    /\ ~Contains(html, "line one ")

(***************************************************************************)
(* C17.  inline_images applies the collected (start, end, replacement)     *)
(* spans from the highest offset to the lowest, so that every span not yet *)
(* applied still delimits exactly its img tag in the text being rewritten: *)
(* no replacement shifts or overlaps a span still to come, and the text    *)
(* outside the img tags stays as it was.                                   *)
(***************************************************************************)
\* the tag that stands for match k once the loop has visited it
TagAfterVisit(k) ==
    LET mt == matches[k]
    IN  IF StartsWith(mt.src, "data:")
        THEN SubSeq(img_html, mt.start + 1, mt.end)
        ELSE "<img" \o mt.before \o " src=\""
             \o (CHOOSE c \in cache : c.src = mt.src).uri \o "\"" \o mt.after \o ">"

\* the document put together from left to right: the text before the
\* first match, then for each match its tag and the text after it
Rewritten ==
    LET n == Len(matches)
        gap(k) == SubSeq(img_html, (IF k = 0 THEN 0 ELSE matches[k].end) + 1,
                         IF k = n THEN Len(img_html) ELSE matches[k + 1].start)
        R[k \in 0..n] ==
            IF k = 0 THEN gap(0)
            ELSE R[k - 1]
                 \o (IF k > remaining THEN TagAfterVisit(k)
                     ELSE SubSeq(img_html, matches[k].start + 1, matches[k].end))
                 \o gap(k)
    IN  R[n]

\* C17: the spans are in rising order and apart; each span not yet visited
\* holds its tag in result; result is the document with the visited tags
\* rewritten and all else as it was
SpansStayValid ==
    ipc \in {"loop", "returned"} =>
        /\ \A k \in 1..Len(matches) :
              /\ matches[k].start < matches[k].end
              /\ k < Len(matches) => matches[k].end <= matches[k + 1].start
        /\ \A k \in 1..remaining :
              /\ SubSeq(result, matches[k].start + 1, matches[k].end)
                    = SubSeq(img_html, matches[k].start + 1, matches[k].end)
              /\ StartsWithAt(result, matches[k].start + 1, "<img")
              /\ At(result, matches[k].end) = ">"
        /\ result = Rewritten

\* two images have been inlined, the first by a longer tag
TwoImagesInlined ==
    /\ ipc = "returned"
    /\ img_base = Some("/docs")
    /\ img_html = "<img alt=\"a\"\tsrc=\"img.png\"> and <img src=\"sub/pic.jpg\" /> end"
    /\ result = "<img alt=\"a\" src=\"data:image/png;base64,iVBO\"> and "
                \o "<img src=\"data:image/jpeg;base64,/9g=\" /> end"

(***************************************************************************)
(* C18.  When a math expression or a Mermaid diagram cannot be rendered,   *)
(* convert still returns, and puts in its place an error element           *)
(* (math-error with the LaTeX between dollar signs, or                     *)
(* <pre class="mermaid-error">) that holds the HTML-escaped source as it   *)
(* was written; the rest of the document is rendered as usual.             *)
(***************************************************************************)
\* C18: every failing formula and diagram of the model comes out as the
\* error element around its escaped source, the rest of the document
\* rendered
ErrorElementHoldsSource ==
    pc = "done" =>
        /\ \A l \in LatexErrors :
              markdown = "The $" \o l \o "$ fails."
              => html = "<p>The <span class=\"math math-inline math-error\">$"
                        \o html_escape(l) \o "$</span> fails.</p> "
        /\ \A d \in MermaidErrors :
              StartsWith(markdown, "~~~mermaid\n" \o d \o "~~~")
              => StartsWith(html, "<pre class=\"mermaid-error\"><code>"
                                  \o Replace(html_escape(d), "\n", "<br>")
                                  \o "</code></pre>")
        /\ markdown = "~~~mermaid\ngrph LR\n~~~\n\nThe $\\frac{$ fails.\n\n- [x] done"
              => /\ Contains(html, "<p>The <span class=\"math math-inline math-error\">"
                                   \o "$\\frac{$</span> fails.</p>")
                 /\ Contains(html, "<ul><li>" \o WHITE_HEAVY_CHECK_MARK)

\* the error element of a definition that holds &lt; shows a < in its place
EntityDecodedTwice ==
    /\ pc = "done"
    /\ markdown = "~~~mermaid\ngrph &lt;\n~~~"
    /\ html = "<pre class=\"mermaid-error\"><code>grph &lt;<br></code></pre> "

(***************************************************************************)
(* C19.  convert_checkboxes_to_unicode replaces every checkbox input that  *)
(* has a checked attribute by the checked symbol and every checkbox input  *)
(* that has none by the unchecked symbol, in whatever order the attributes *)
(* of the element stand: a checked checkbox never comes out as the         *)
(* unchecked symbol, and no checkbox input is left.                        *)
(***************************************************************************)
\* C19: after the checkbox stage no checkbox input is left, and an input
\* written with its attributes in any order is the checked symbol if it
\* has checked, the unchecked symbol if not
CheckboxesByAttribute ==
    pc = "math" =>
        /\ ~Contains(html, "type=\"checkbox\"")
        /\ \A a \in BoxAttrs :
              markdown = "Box <input" \o a \o "> here"
              => html = "<p>Box "
                        \o (IF Contains(a, " checked") THEN WHITE_HEAVY_CHECK_MARK
                            ELSE WHITE_LARGE_SQUARE)
                        \o "  here</p>\n"

\* a checkbox whose checked attribute stands first has become the square
CheckedFirstBecomesSquare ==
    /\ pc = "math"
    /\ markdown = "Box <input checked=\"\" type=\"checkbox\"> here"
    /\ html = "<p>Box " \o WHITE_LARGE_SQUARE \o "  here</p>\n"

(***************************************************************************)
(* C20.  In a run of main the clipboard is written at most once, and only  *)
(* after the arguments were parsed with neither help nor version asked     *)
(* for, the input was read, the editor (in edit mode) exited with success  *)
(* and convert and then inline_images returned.  Help goes before version, *)
(* and both return before any input is read.  When argument parsing, the   *)
(* reading of the file, the editor or the clipboard fails, the run ends    *)
(* with exit status 1 and takes no further step.                           *)
(***************************************************************************)
\* the steps of a run that reaches the clipboard, given those of its reading
StepsToClipboard(reading) ==
    <<"parse_args">> \o reading
    \o (IF config.edit_mode THEN <<"edit_in_editor">> ELSE <<>>)
    \o <<"convert", "inline_images", "copy_html">>

\* a line that starts with p has been written to standard error
Reported(p) == \E i \in 1..Len(stderr) : StartsWith(stderr[i], p)

\* what the claim says of a state of a run, beside the reading of the input
RunInOrder ==
    /\ Len(clipboard) <= 1
    /\ clipboard # <<>> =>
          /\ parse_args(args).ok
          /\ ~config.show_help
          /\ ~config.show_version
          /\ stderr = <<"Copied to clipboard">>
          /\ pc = "idle"
          /\ trace = StageOrder
          /\ markdown = input
          /\ ipc = "returned"
          /\ img_html = html
          /\ clipboard = <<FullHtml(result)>>
          /\ exit_status = "0"
    /\ (mpc \notin {"start", "parse_args", "help"} /\ HasWord(args, {"--help", "-h"})
          /\ parse_args(args).ok)
          => /\ steps = <<"parse_args", "print_help">>
             /\ stderr = <<HelpText>>
             /\ exit_status = "0"
    /\ (mpc \notin {"start", "parse_args", "help", "version"}
          /\ ~HasWord(args, {"--help", "-h"}) /\ HasWord(args, {"--version", "-V"})
          /\ parse_args(args).ok)
          => /\ steps = <<"parse_args", "print_version">>
             /\ stderr = <<VersionText>>
             /\ exit_status = "0"
    /\ (Reported("error: ") \/ Reported("Error"))
          => /\ exit_status = "1"
             /\ mpc = "exited"
             /\ clipboard = <<>>
             /\ steps[Len(steps)] =
                    IF Reported("error: cannot read") THEN "read_file"
                    ELSE IF Reported("error: ") THEN "parse_args"
                    ELSE IF Reported("Error copying") THEN "copy_html"
                    ELSE "edit_in_editor"
    /\ exit_status = "1" => Reported("error: ") \/ Reported("Error")

\* C20 as stated: no step follows the exit, every state is as RunInOrder
\* has it, and the clipboard is only written after the file or standard
\* input was read
ClipboardAfterRead ==
    [][/\ mpc # "exited"
       /\ RunInOrder'
       /\ clipboard' # <<>> =>
             \/ steps' = StepsToClipboard(<<"read_file">>)'
             \/ steps' = StepsToClipboard(<<"read_stdin">>)']_vars

\* C20 as amended: the same, but the clipboard is also written by the run
\* in edit mode with no file at a terminal, which reads nothing
ClipboardAfterReadOrEmptyEdit ==
    [][/\ mpc # "exited"
       /\ RunInOrder'
       /\ clipboard' # <<>> =>
             \/ steps' = StepsToClipboard(<<"read_file">>)'
             \/ steps' = StepsToClipboard(<<"read_stdin">>)'
             \/ /\ steps' = StepsToClipboard(<<"terminal">>)'
                /\ config'.edit_mode
                /\ ~config'.input_file.some]_vars

\* a run in edit mode at a terminal has written the clipboard, nothing read
CopiedWithoutRead ==
    /\ args = <<"-e">>
    /\ steps = <<"parse_args", "terminal", "edit_in_editor", "convert",
                 "inline_images", "copy_html">>
    /\ exit_status = "0"
    /\ Len(clipboard) = 1
    /\ Contains(clipboard[1], "<body class=\"markdown-body\"><h1>Hello</h1>")

====
